---- MODULE Spec2Model ----
(***************************************************************************)
(* Linux Universal App Installer (src/main.py): the installation queue,    *)
(* the batch worker thread (BatchInstaller), the interactive worker        *)
(* (InstallWorker), the main-thread handlers of LinuxAppInstaller and the  *)
(* history ledger (history.json).                                          *)
(*                                                                         *)
(* The main thread runs one handler at a time (Qt event loop); signals     *)
(* emitted by a worker thread are posted to the main thread and handled    *)
(* there later, in posting order (queued connections).  Worker threads     *)
(* interleave with the main thread between statements; InstallationTask    *)
(* objects are shared by reference between the queue and the workers.      *)
(***************************************************************************)
EXTENDS Integers, Sequences, FiniteSets, TLC

\* ------------------------------------------------------------------ bounds
\* InstallationTask objects created in one session
MaxTasks == 2
\* BatchInstaller objects created in one session
MaxBatches == 2
\* InstallWorker objects created in one session
MaxInstalls == 2
\* the appends made to the ledger on its own
MaxAppends == 1002
\* the dot-separated segments of a file name given to format detection
MaxSegments == 3
\* the highest numbered name app_<k>.AppImage in ~/Applications
MaxSlots == 3

\* history.json keeps the last 1000 entries (save_history_entry)
HistoryCap == 1000

\* ------------------------------------------------------------------ paths
\* A path is the sequence of the dot-separated segments of its file name:
\* "a.deb" is <<"a", "deb">>, "b.tar.gz" is <<"b", "tar", "gz">>.
PathDeb == <<"a", "deb">>
PathXyz == <<"c", "xyz">>
PathTgz == <<"b", "tar", "gz">>
PathTar == <<"d", "tar">>
PathApp == <<"app", "AppImage">>
PathTGZ == <<"e", "TAR", "GZ">>
PathRun == <<"f", "run">>
PathExe == <<"g", "executable">>

\* the files offered to add_to_queue
Paths == { PathDeb, PathXyz }

\* the files offered to dropEvent and browse_files
DropPaths == { PathDeb, PathTgz, PathTar, PathXyz }

\* every path that occurs
AllPaths == DropPaths \cup Paths \cup { PathApp, PathTGZ, PathRun, PathExe }

\* str.lower() on the segments that occur
Lower(s) ==
    CASE s = "DEB" -> "deb"
      [] s = "GZ"  -> "gz"
      [] s = "XZ"  -> "xz"
      [] s = "TAR" -> "tar"
      [] s = "AppImage" -> "appimage"
      [] OTHER     -> s

\* get_file_type without the tests of '.tar.gz' and '.tar.xz'
get_file_type_single_suffix(p) ==
    LET n == Len(p) IN
    IF \A i \in 1..(n-1) : p[i] = "" THEN ""
    ELSE Lower(p[n])

\* get_file_type: '.tar.gz' and '.tar.xz' are matched first (case-sensitive
\* endswith), then os.path.splitext()[1].lower().lstrip('.');
\* splitext finds no extension in a name that has no dot after its leading dots
get_file_type(p) ==
    LET n == Len(p) IN
    IF n >= 3 /\ p[n-1] = "tar" /\ p[n] = "gz" THEN "tar.gz"
    ELSE IF n >= 3 /\ p[n-1] = "tar" /\ p[n] = "xz" THEN "tar.xz"
    ELSE IF \A i \in 1..(n-1) : p[i] = "" THEN ""
    ELSE Lower(p[n])

\* ext.replace('.', '_') on the values get_file_type returns
DotToUnderscore(ext) ==
    CASE ext = "tar.gz" -> "tar_gz"
      [] ext = "tar.xz" -> "tar_xz"
      [] OTHER          -> ext

\* the install_<name> methods class BatchInstaller defines
BatchInstallMethods ==
    { "deb", "appimage", "tar_gz", "tar_xz", "tgz", "tar", "snap",
      "flatpak", "run", "bin", "executable" }

\* BatchInstaller.run: getattr(self, f"install_{...}", None) is not None
BatchResolves(p) == DotToUnderscore(get_file_type(p)) \in BatchInstallMethods

\* install_file: the list of accepted types
InteractiveSupported ==
    { "deb", "appimage", "tar.gz", "tar.xz", "tgz", "snap", "flatpak",
      "run", "bin" }

\* InstallationTask.__init__: md5(file_path)[:8], a function of the path alone
TaskId(p) == <<"md5">> \o p

\* ------------------------------------------------------------------ state
VARIABLES
    has_set_installer,      \* whether class BatchInstaller has a set_installer method
    tasks,                  \* the InstallationTask objects; an object is its index
    installation_queue,     \* LinuxAppInstaller.installation_queue: object references
    installation_history,   \* LinuxAppInstaller.installation_history: loaded tasks
    history_file,           \* history.json
    batches,                \* the BatchInstaller objects; an object is its index
    current_batch_installer,\* 0 is None
    batch_install_button,   \* batch_install_button.isEnabled
    install_workers,        \* the InstallWorker objects; an object is its index
    current_worker,         \* 0 is None
    installing,             \* the single-flight flag
    ui_enabled,             \* drop_widget.acceptDrops and browse_button.isEnabled
    status_label,           \* the text of status_label
    dialog,                 \* the last message box of the interactive path
    dialog_text,            \* the message that box shows
    disk,                   \* the file behind each path: its state or content
    app_dir,                \* ~/Applications: the occupied app[_k].AppImage names
    exception,              \* what the latest load_history raised to its caller
    appended,               \* the entries handed to the ledger so far
    probe,                  \* an operation applied on its own: input and result
    events                  \* signals posted to the main thread, oldest first

vars == << has_set_installer, tasks, installation_queue, installation_history,
           history_file, batches, current_batch_installer,
           batch_install_button, install_workers,
           current_worker, installing, ui_enabled, status_label, dialog,
           dialog_text, disk, app_dir, exception, appended, probe, events >>

queue_vars   == << tasks, installation_queue >>
history_vars == << installation_history, history_file >>
batch_vars   == << batches, current_batch_installer, batch_install_button >>
single_vars  == << install_workers, current_worker, installing, ui_enabled,
                   status_label, dialog, dialog_text >>
\* what the operations of the queue, batch and history tabs leave alone
fixed_vars   == << has_set_installer, disk, app_dir, exception, appended, probe >>

\* ------------------------------------------------------------- task model
\* None as an object reference, and None as a timestamp
None == 0
NoTime == <<>>

\* A message is a sequence of words.  MsgFailed is the text of an exception
\* other than a timeout (the stderr of the command, "dpkg not found", an
\* OSError).
MsgInstalled   == << "Successfully installed" >>
MsgFailed      == << "command failed" >>
MsgUnsupported == << "Unsupported file type" >>

\* the states of a file on disk: two contents, unreadable, or missing
FileStates == { "v1", "v2", "unreadable", "missing" }

\* InstallationTask.calculate_hash: sha256 of the content, "unknown" when the
\* file cannot be opened
calculate_hash(p) ==
    IF disk[p] \in { "unreadable", "missing" }
    THEN << "unknown" >> ELSE << "sha256", disk[p] >>

\* os.path.getsize(file_path) if os.path.exists(file_path) else 0
getsize(p) ==
    CASE disk[p] = "missing" -> 0
      [] disk[p] = "v2"      -> 2
      [] OTHER               -> 1

\* task_id = None, and the empty string, which `task_id or md5` treats alike
NoId == <<>>

\* InstallationTask.__init__(file_path, task_id)
InstallationTask(p, task_id) ==
    [ file_path |-> p,
      task_id |-> IF task_id = NoId THEN TaskId(p) ELSE task_id,
      status |-> "queued", progress |-> 0, message |-> <<>>,
      start_time |-> NoTime, end_time |-> NoTime,
      file_hash |-> calculate_hash(p), file_size |-> getsize(p) ]

\* InstallationTask(file_path)
NewTask(p) == InstallationTask(p, NoId)

\* datetime.isoformat / datetime.fromisoformat, and JSON null
isoformat(t) == <<"iso">> \o t
fromisoformat(s) == Tail(s)
null == <<"null">>

\* a key that the dictionary lacks
absent == << "absent" >>

\* status = None: what data.get('status', 'queued') returns for a JSON null
NoneStatus == "None"

\* InstallationTask.to_dict: a timestamp that is None is written as null
to_dict(t) ==
    [ file_path |-> t.file_path, task_id |-> t.task_id, status |-> t.status,
      progress |-> t.progress, message |-> t.message,
      start_time |-> IF t.start_time # NoTime THEN isoformat(t.start_time) ELSE null,
      end_time   |-> IF t.end_time # NoTime THEN isoformat(t.end_time) ELSE null,
      file_hash |-> t.file_hash, file_size |-> t.file_size ]

\* InstallationTask.from_dict raises: data['file_path'] on a dictionary
\* without that key (KeyError)
from_dict_raises(d) == d.file_path = absent

\* from_dict without the assignment of file_hash
from_dict_keeps_file_hash(d) ==
    [ InstallationTask(d.file_path, d.task_id) EXCEPT
        !.status = d.status,
        !.progress = d.progress,
        !.message = d.message,
        !.start_time = IF d.start_time # null THEN fromisoformat(d.start_time) ELSE NoTime,
        !.end_time = IF d.end_time # null THEN fromisoformat(d.end_time) ELSE NoTime,
        !.file_size = d.file_size ]

\* InstallationTask.from_dict: the constructor runs on the file as it is now,
\* then every field but file_path is assigned from the dictionary
from_dict(d) ==
    [ InstallationTask(d.file_path, d.task_id) EXCEPT
        !.status = d.status,
        !.progress = d.progress,
        !.message = d.message,
        !.start_time = IF d.start_time # null THEN fromisoformat(d.start_time) ELSE NoTime,
        !.end_time = IF d.end_time # null THEN fromisoformat(d.end_time) ELSE NoTime,
        !.file_hash = d.file_hash,
        !.file_size = d.file_size ]

Terminal == { "completed", "failed" }

\* s[:n], the oldest n entries
FirstN(s, n) == IF Len(s) <= n THEN s ELSE SubSeq(s, 1, n)

\* s[-n:]
LastN(s, n) == IF Len(s) <= n THEN s ELSE SubSeq(s, Len(s) - n + 1, Len(s))


\* ---------------------------------------------------------- history ledger
\* load_history: the value of installation_history it leaves; a missing or
\* unparsable file leaves it empty
load_history(file) ==
    IF file.state = "ok" /\ \A i \in 1..Len(file.data) : ~from_dict_raises(file.data[i])
    THEN [ i \in 1..Len(file.data) |-> from_dict(file.data[i]) ]
    ELSE <<>>

\* the rows update_history_display fills: the last 100 entries
DisplayRows == 100

\* load_history raises to its caller: update_history_display runs after the
\* try block, and task.status.capitalize() fails on a status that is no string
load_history_raises(file) ==
    LET loaded == load_history(file)
    IN  \E i \in 1..Len(loaded) :
            /\ i > Len(loaded) - DisplayRows
            /\ loaded[i].status = NoneStatus

\* the exception load_history leaves to its caller, "" for none
LoadException(file) == IF load_history_raises(file) THEN "AttributeError" ELSE ""

\* what the write of history.json in save_history_entry can do: succeed, fail
\* in open() (the file is left as it was), or fail after open() truncated it
WriteOutcomes == { "ok", "open_failed", "partial" }

\* save_history_entry: the file after the rewrite of the last HistoryCap
\* entries of history (the in-memory list, the new task appended)
written_file(file, history, wr) ==
    CASE wr = "ok" ->
            LET kept == LastN(history, HistoryCap)
            IN  [ state |-> "ok",
                  data |-> [ i \in 1..Len(kept) |-> to_dict(kept[i]) ] ]
      [] wr = "open_failed" -> file
      [] OTHER -> [ state |-> "corrupt", data |-> <<>> ]

\* -------------------------------------------------------------------- Init
Init ==
    /\ has_set_installer \in BOOLEAN
    /\ tasks = <<>>
    /\ installation_queue = <<>>
    /\ installation_history = <<>>
    /\ history_file = [ state |-> "missing", data |-> <<>> ]
    /\ batches = <<>>
    /\ current_batch_installer = None
    /\ batch_install_button = TRUE
    /\ install_workers = <<>>
    /\ current_worker = None
    /\ installing = FALSE
    /\ ui_enabled = TRUE
    /\ status_label = ""
    /\ dialog = ""
    /\ dialog_text = <<>>
    /\ disk = [ p \in AllPaths |-> "v1" ]
    /\ app_dir = {}
    /\ exception = ""
    /\ appended = 0
    /\ probe = <<>>
    /\ events = <<>>

\* ------------------------------------------------------------------ queue
\* what a file dialog or a drop can deliver: one file or two
PathSelections ==
    { <<p>> : p \in Paths } \cup { <<p, q>> : p \in Paths, q \in Paths }

\* add_to_queue: one new InstallationTask per selected file, appended in order
add_to_queue(files) ==
    /\ Len(tasks) + Len(files) <= MaxTasks
    /\ tasks' = tasks \o [ i \in 1..Len(files) |-> NewTask(files[i]) ]
    /\ installation_queue' =
           installation_queue \o [ i \in 1..Len(files) |-> Len(tasks) + i ]
    /\ UNCHANGED << fixed_vars, history_vars, batch_vars, single_vars, events >>

\* remove_from_queue: the selected item carries a task_id; every task with
\* that id is filtered out
remove_from_queue(task_id) ==
    /\ \E i \in 1..Len(installation_queue) :
           tasks[installation_queue[i]].task_id = task_id
    /\ LET keep(r) == tasks[r].task_id # task_id
       IN  installation_queue' = SelectSeq(installation_queue, keep)
    /\ UNCHANGED << fixed_vars, tasks, history_vars, batch_vars,
                    single_vars, events >>

\* clear_queue, had the BatchInstaller been handed the list itself and kept it
\* as its work list: list.clear() would then empty every thread's work list
clear_queue_of_shared_list ==
    /\ installation_queue' = <<>>
    /\ batches' = [ w \in 1..Len(batches) |-> [ batches[w] EXCEPT !.tasks = <<>> ] ]
    /\ UNCHANGED << fixed_vars, tasks, history_vars, current_batch_installer,
                    batch_install_button, single_vars, events >>

\* clear_queue
clear_queue ==
    /\ installation_queue' = <<>>
    /\ UNCHANGED << fixed_vars, tasks, history_vars, batch_vars,
                    single_vars, events >>

\* ------------------------------------------------------------------ batch
\* QThread.isRunning: started and run() has not returned
isRunning(b) == batches[b].pc \notin { "unstarted", "finished" }

\* BatchInstaller.__init__: deque(tasks), running = True
NewBatch(queue_copy) ==
    [ tasks |-> queue_copy, running |-> TRUE, pc |-> "unstarted", task |-> None,
      clock |-> 0 ]

\* datetime.now() in thread w: the readings of one thread increase, and the
\* readings of different threads differ
Now(w) == << w, batches[w].clock + 1 >>

\* line 974: set_installer is called on the new BatchInstaller; neither class
\* BatchInstaller nor QThread defines it, so the call raises AttributeError
\* and the handler ends there unless the method exists
set_installer_raises == ~has_set_installer

\* start_batch_installation, the slot of batch_install_button.clicked: a
\* disabled button emits no click; line 980 is not reached when line 974 raises
start_batch_installation ==
    /\ batch_install_button
    /\ UNCHANGED << fixed_vars, queue_vars, history_vars, single_vars, events >>
    /\ IF installation_queue = <<>>
       THEN UNCHANGED batch_vars
       ELSE IF current_batch_installer # None /\ isRunning(current_batch_installer)
       THEN UNCHANGED batch_vars
       ELSE /\ Len(batches) < MaxBatches
            /\ current_batch_installer' = Len(batches) + 1
            /\ batch_install_button' = set_installer_raises
            /\ batches' =
                 Append(batches,
                        IF set_installer_raises
                        THEN NewBatch(installation_queue)
                        ELSE [ NewBatch(installation_queue) EXCEPT !.pc = "loop" ])

\* signals of a BatchInstaller, as posted to the main thread
TaskCompleted(id, success, message) ==
    [ sig |-> "task_completed", task_id |-> id, success |-> success,
      message |-> message ]
BatchFinished == [ sig |-> "batch_finished", task_id |-> <<>>, success |-> TRUE,
                   message |-> <<>> ]
ProgressUpdated(id, progress, message) ==
    [ sig |-> "progress_updated", task_id |-> id, progress |-> progress,
      message |-> message ]

\* the stop request the running flag is there for: the holder of a running
\* BatchInstaller clears the flag that the loop test of line 285 reads
request_stop(w) ==
    /\ isRunning(w)
    /\ batches[w].running
    /\ batches' = [ batches EXCEPT ![w].running = FALSE ]
    /\ UNCHANGED << fixed_vars, queue_vars, history_vars, current_batch_installer,
                    batch_install_button, single_vars, events >>

\* the loop with the test "while self.tasks:", the running flag not consulted
batch_loop_ignores_running(w) ==
    /\ batches[w].pc = "loop"
    /\ IF batches[w].tasks # <<>>
       THEN /\ batches' = [ batches EXCEPT ![w].tasks = Tail(@),
                                           ![w].task = Head(batches[w].tasks),
                                           ![w].pc = "start_time" ]
            /\ tasks' = [ tasks EXCEPT ![Head(batches[w].tasks)].status = "installing" ]
            /\ UNCHANGED events
       ELSE /\ batches' = [ batches EXCEPT ![w].pc = "finished" ]
            /\ events' = Append(events, BatchFinished)
            /\ UNCHANGED tasks
    /\ UNCHANGED << fixed_vars, installation_queue, history_vars,
                    current_batch_installer, batch_install_button, single_vars >>

\* the loop with self.tasks.pop() in place of popleft(): the newest task first
batch_loop_pops_right(w) ==
    /\ batches[w].pc = "loop"
    /\ IF batches[w].tasks # <<>> /\ batches[w].running
       THEN LET n == Len(batches[w].tasks) IN
            /\ batches' = [ batches EXCEPT ![w].tasks = SubSeq(@, 1, n - 1),
                                           ![w].task = batches[w].tasks[n],
                                           ![w].pc = "start_time" ]
            /\ tasks' = [ tasks EXCEPT ![batches[w].tasks[n]].status = "installing" ]
            /\ UNCHANGED events
       ELSE /\ batches' = [ batches EXCEPT ![w].pc = "finished" ]
            /\ events' = Append(events, BatchFinished)
            /\ UNCHANGED tasks
    /\ UNCHANGED << fixed_vars, installation_queue, history_vars,
                    current_batch_installer, batch_install_button, single_vars >>

\* BatchInstaller.run, lines 285-287 and 317: the loop test; popleft and
\* status = "installing", or the loop ends and batch_finished is emitted
batch_loop(w) ==
    /\ batches[w].pc = "loop"
    /\ IF batches[w].tasks # <<>> /\ batches[w].running
       THEN /\ batches' = [ batches EXCEPT ![w].tasks = Tail(@),
                                           ![w].task = Head(batches[w].tasks),
                                           ![w].pc = "start_time" ]
            /\ tasks' = [ tasks EXCEPT ![Head(batches[w].tasks)].status = "installing" ]
            /\ UNCHANGED events
       ELSE /\ batches' = [ batches EXCEPT ![w].pc = "finished" ]
            /\ events' = Append(events, BatchFinished)
            /\ UNCHANGED tasks
    /\ UNCHANGED << fixed_vars, installation_queue, history_vars,
                    current_batch_installer, batch_install_button, single_vars >>

\* BatchInstaller.run, line 288
batch_start_time(w) ==
    /\ batches[w].pc = "start_time"
    /\ tasks' = [ tasks EXCEPT ![batches[w].task].start_time = Now(w) ]
    /\ batches' = [ batches EXCEPT ![w].pc = "try", ![w].clock = @ + 1 ]
    /\ UNCHANGED << fixed_vars, installation_queue, history_vars,
                    current_batch_installer, batch_install_button, single_vars, events >>

\* ---- the installation procedures ----

\* What one run of a procedure meets: whether the tool it needs is on PATH
\* (shutil.which), whether its file operations succeed (makedirs, move,
\* chmod), whether the archive holds an install.sh, how each command it runs
\* ends, and which step of the desktop integration fails, if any (the two
\* database updates are commands: they fail by exit code or by the timeout).
CmdOutcomes == { "ok", "nonzero", "timeout" }
IntegrationSteps ==
    { "menu entry", "shortcut", "icon", "desktop database",
      "desktop database timeout", "directories", "uninstall entry",
      "file associations", "mime database timeout" }
InstallEnvs ==
    [ tool : BOOLEAN, os : BOOLEAN, script : BOOLEAN,
      cmds : [ 1..2 -> CmdOutcomes ],
      integ : IntegrationSteps \cup { "none" } ]

\* the runs in which no command reaches the time limit and no step of the
\* desktop integration fails
QuickEnvs == { env \in InstallEnvs :
                 /\ \A k \in 1..2 : env.cmds[k] # "timeout"
                 /\ env.integ = "none" }
\* the desktop integration belongs to the interactive procedures only
BatchEnvs == { env \in InstallEnvs : env.integ = "none" }

\* a procedure returns a message or raises an exception with a message; dir
\* is ~/Applications afterwards and moved tells whether the file was moved
\* attempted lists the steps of the desktop integration the run got to, in
\* order; created lists those of them that did not fail
Returns(msg, dir, moved) ==
    [ ok |-> TRUE, message |-> msg, dir |-> dir, moved |-> moved, attempted |-> << >> ]
Raises(msg, dir, moved) ==
    [ ok |-> FALSE, message |-> msg, dir |-> dir, moved |-> moved, attempted |-> << >> ]
Attempting(r, steps) == [ r EXCEPT !.attempted = steps ]

\* the command lines, as lists of words
DpkgCommand(p) == << "pkexec", "dpkg", "-i" >> \o p
AptCommand == << "pkexec", "apt-get", "install", "-f" >>
TarCommand(p) == << "tar", "-xf" >> \o p
ScriptCommand == << "pkexec", "bash", "install.sh" >>
SnapCommand(p) == << "pkexec", "snap", "install" >> \o p \o << "--dangerous" >>
FlatpakCommand(p) == << "flatpak", "install", "--user" >> \o p
BashCommand(p) == << "pkexec", "bash" >> \o p

\* the commands a procedure runs on p, in order
Commands(ext, p, env) ==
    CASE ext = "deb" -> << DpkgCommand(p), AptCommand >>
      [] ext \in { "tar_gz", "tar_xz", "tgz", "tar" } ->
           IF env.script THEN << TarCommand(p), ScriptCommand >>
           ELSE << TarCommand(p) >>
      [] ext = "snap" -> << SnapCommand(p) >>
      [] ext = "flatpak" -> << FlatpakCommand(p) >>
      [] ext \in { "run", "bin", "executable" } -> << BashCommand(p) >>
      [] OTHER -> << >>

\* str(subprocess.TimeoutExpired(cmd, 300))
TimeoutExpired(cmd) == << "Command" >> \o cmd \o << "timed out after 300 seconds" >>

\* BatchInstaller.run_command: subprocess.run(..., timeout=300) raises
\* TimeoutExpired, which nothing here catches; a nonzero exit raises Exception
batch_run_command(cmd, outcome) ==
    CASE outcome = "ok"      -> << >>
      [] outcome = "nonzero" -> MsgFailed
      [] outcome = "timeout" -> TimeoutExpired(cmd)

\* run_command without the bound: the command is waited for until it exits
run_command_without_timeout(cmd, outcome) ==
    CASE outcome = "ok"      -> << >>
      [] outcome = "nonzero" -> MsgFailed
      [] outcome = "timeout" -> << >>

\* LinuxAppInstaller.run_command: TimeoutExpired is caught and replaced
run_command(cmd, outcome) ==
    CASE outcome = "ok"      -> << >>
      [] outcome = "nonzero" -> MsgFailed
      [] outcome = "timeout" -> << "Command timed out:" >> \o cmd

\* the message of the first command of cmds that raises, << >> if none does
RECURSIVE batch_run_commands(_, _, _)
batch_run_commands(cmds, outcomes, k) ==
    IF k > Len(cmds) THEN << >>
    ELSE IF batch_run_command(cmds[k], outcomes[k]) # << >>
    THEN batch_run_command(cmds[k], outcomes[k])
    ELSE batch_run_commands(cmds, outcomes, k + 1)

RECURSIVE run_commands(_, _, _)
run_commands(cmds, outcomes, k) ==
    IF k > Len(cmds) THEN << >>
    ELSE IF run_command(cmds[k], outcomes[k]) # << >>
    THEN run_command(cmds[k], outcomes[k])
    ELSE run_commands(cmds, outcomes, k + 1)

\* install_appimage: the name in ~/Applications the file is moved to.  Slot 0
\* is <base>.AppImage and slot k is <base>_k.AppImage; dir is the set of the
\* slots that exist.
RECURSIVE first_free_counter(_, _)
first_free_counter(dir, counter) ==
    IF counter \in dir THEN first_free_counter(dir, counter + 1) ELSE counter

appimage_dest(dir) == IF 0 \in dir THEN first_free_counter(dir, 1) ELSE 0

\* the file name of a slot
SlotName(k) ==
    CASE k = 0 -> "app.AppImage"
      [] k = 1 -> "app_1.AppImage"
      [] k = 2 -> "app_2.AppImage"
      [] k = 3 -> "app_3.AppImage"
      [] k = 4 -> "app_4.AppImage"
      [] OTHER -> "app_5.AppImage"

MsgAppImage(dest) == << "AppImage installed to", SlotName(dest) >>
MsgExtracted == << "Extracted to" >>
MsgExecuted == << "Executed" >>

\* the procedures of class BatchInstaller
batch_install_with_tool(ext, p, env, dir) ==
    IF ~env.tool THEN Raises(MsgFailed, dir, FALSE)
    ELSE LET e == batch_run_commands(Commands(ext, p, env), env.cmds, 1)
         IN  IF e # << >> THEN Raises(e, dir, FALSE)
             ELSE Returns(MsgInstalled, dir, FALSE)

batch_install_appimage(p, env, dir) ==
    IF ~env.os THEN Raises(MsgFailed, dir, FALSE)
    ELSE Returns(MsgAppImage(appimage_dest(dir)), dir \cup { appimage_dest(dir) }, TRUE)

batch_install_tar(ext, p, env, dir) ==
    IF ~env.os THEN Raises(MsgFailed, dir, FALSE)
    ELSE LET e == batch_run_commands(Commands(ext, p, env), env.cmds, 1)
         IN  IF e # << >> THEN Raises(e, dir, FALSE)
             ELSE Returns(MsgExtracted, dir, FALSE)

batch_install_executable(ext, p, env, dir) ==
    IF ~env.os THEN Raises(MsgFailed, dir, FALSE)
    ELSE LET e == batch_run_commands(Commands(ext, p, env), env.cmds, 1)
         IN  IF e # << >> THEN Raises(e, dir, FALSE)
             ELSE Returns(MsgExecuted, dir, FALSE)

\* BatchInstaller.run, lines 294-301: the method install_<ext> is looked up
\* by name and called
batch_install_func(p, env, dir) ==
    LET ext == DotToUnderscore(get_file_type(p)) IN
    CASE ext \in { "deb", "snap", "flatpak" } -> batch_install_with_tool(ext, p, env, dir)
      [] ext = "appimage" -> batch_install_appimage(p, env, dir)
      [] ext \in { "tar_gz", "tar_xz", "tgz", "tar" } -> batch_install_tar(ext, p, env, dir)
      [] ext \in { "run", "bin", "executable" } -> batch_install_executable(ext, p, env, dir)
      [] OTHER -> Raises(MsgUnsupported, dir, FALSE)

\* the desktop integration of the interactive procedures.  A helper fails
\* when the step that fails in this run is one of its steps.  Each helper has
\* its own try/except Exception, which logs the exception and returns: the
\* text never leaves the helper.
StepFails(env, steps) == IF env.integ \in steps THEN MsgFailed ELSE << >>
logged(e) == << >>

DesktopEntrySteps ==
    { "menu entry", "shortcut", "desktop database", "desktop database timeout" }

\* create_appimage_desktop_entry without its try/except
create_appimage_desktop_entry_raises(env) ==
    StepFails(env, DesktopEntrySteps \cup { "icon" })

create_appimage_desktop_entry(env) ==
    logged(StepFails(env, DesktopEntrySteps \cup { "icon" }))
create_tar_desktop_entries(env) == logged(StepFails(env, DesktopEntrySteps))
create_executable_desktop_entry(env) == logged(StepFails(env, DesktopEntrySteps))
create_uninstall_entry(env) == logged(StepFails(env, { "uninstall entry" }))
setup_file_associations(env) ==
    logged(StepFails(env, { "file associations", "mime database timeout" }))
\* setup_application_directories returns {} when it fails
setup_application_directories(env) ==
    IF StepFails(env, { "directories" }) # << >> THEN "N/A" ELSE "data"

\* the step a failure belongs to
FailedStep(env) ==
    CASE env.integ = "desktop database timeout" -> "desktop database"
      [] env.integ = "mime database timeout"    -> "file associations"
      [] OTHER                                  -> env.integ

\* the steps run inside one try block: the failing step ends the block
RECURSIVE Through(_, _)
Through(steps, failed) ==
    IF steps = << >> THEN << >>
    ELSE IF Head(steps) = failed THEN << failed >>
    ELSE << Head(steps) >> \o Through(Tail(steps), failed)

\* the steps the helpers get to: extract_appimage_icon has a try block of its
\* own inside create_appimage_desktop_entry; writing the menu entry, writing
\* the shortcut and update-desktop-database share one try block
appimage_entry_attempts(env) ==
    << "icon" >> \o Through(<< "menu entry", "shortcut", "desktop database" >>, FailedStep(env))
tar_entries_attempts(env) ==
    Through(<< "menu entry", "shortcut", "desktop database" >>, FailedStep(env))
executable_entry_attempts(env) ==
    Through(<< "menu entry", "shortcut", "desktop database" >>, FailedStep(env))
\* post_install_setup, lines 1570-1576: the extensions of each file type
file_associations ==
    [ file_type \in { "appimage", "tar.gz", "tar.xz", "run", "bin" } |->
        CASE file_type = "appimage" -> << ".appimage" >>
          [] file_type = "tar.gz"   -> << ".tar.gz", ".tgz" >>
          [] file_type = "tar.xz"   -> << ".tar.xz" >>
          [] file_type = "run"      -> << ".run" >>
          [] file_type = "bin"      -> << ".bin" >> ]

\* post_install_setup calls three helpers, each with a try block of its own
post_install_attempts(env, file_type) ==
    << "directories", "uninstall entry" >>
      \o (IF file_type \in DOMAIN file_associations
          THEN << "file associations" >> ELSE << >>)

MsgDegraded ==
    << "installed successfully, but some integration features may not be available." >>

\* post_install_setup: the text it returns
post_install_setup(env, file_type) ==
    LET dirs == setup_application_directories(env)
        e1 == create_uninstall_entry(env)
        e2 == IF file_type \in DOMAIN file_associations
              THEN setup_file_associations(env) ELSE << >>
    IN  IF e1 # << >> \/ e2 # << >> THEN MsgDegraded
        ELSE << "has been successfully installed!", "Data Directory:", dirs >>

WithIntegration == << "with desktop integration" >>

\* the procedures of class LinuxAppInstaller
install_with_tool(ext, p, env, dir) ==
    IF ~env.tool THEN Raises(MsgFailed, dir, FALSE)
    ELSE LET e == run_commands(Commands(ext, p, env), env.cmds, 1)
         IN  IF e # << >> THEN Raises(e, dir, FALSE)
             ELSE Returns(MsgInstalled, dir, FALSE)

install_appimage(p, env, dir) ==
    LET dest == appimage_dest(dir)
        e == create_appimage_desktop_entry(env)
        completion_msg == post_install_setup(env, "appimage")
    IN  IF ~env.os
        THEN Raises(<< "Failed to install AppImage:" >> \o MsgFailed, dir, FALSE)
        ELSE IF e # << >>
        THEN Attempting(Raises(<< "Failed to install AppImage:" >> \o e, dir \cup { dest }, TRUE),
                        appimage_entry_attempts(env))
        ELSE Attempting(Returns(MsgAppImage(dest) \o WithIntegration, dir \cup { dest }, TRUE),
                        appimage_entry_attempts(env) \o post_install_attempts(env, "appimage"))

\* install_tar: the desktop entries are created right after the extraction,
\* before install.sh is run; post_install_setup comes after install.sh
install_tar(ext, p, env, dir) ==
    LET cmds == Commands(ext, p, env)
        e1 == run_command(cmds[1], env.cmds[1])
        e2 == create_tar_desktop_entries(env)
        e3 == IF env.script THEN run_command(cmds[2], env.cmds[2]) ELSE << >>
        completion_msg == post_install_setup(env, "tar")
        e == IF ~env.os THEN MsgFailed
             ELSE IF e1 # << >> THEN e1
             ELSE IF e2 # << >> THEN e2
             ELSE e3
        steps == IF ~env.os \/ e1 # << >> THEN << >>
                 ELSE IF e2 # << >> \/ e3 # << >> THEN tar_entries_attempts(env)
                 ELSE tar_entries_attempts(env) \o post_install_attempts(env, "tar")
    IN  IF e # << >>
        THEN Attempting(Raises(<< "Failed to extract archive:" >> \o e, dir, FALSE), steps)
        ELSE Attempting(Returns(MsgExtracted \o WithIntegration, dir, FALSE), steps)

install_executable(ext, p, env, dir) ==
    LET e1 == run_commands(Commands(ext, p, env), env.cmds, 1)
        e2 == create_executable_desktop_entry(env)
        completion_msg == post_install_setup(env, "executable")
        e == IF ~env.os THEN MsgFailed
             ELSE IF e1 # << >> THEN e1
             ELSE e2
        steps == IF ~env.os \/ e1 # << >> THEN << >>
                 ELSE IF e2 # << >> THEN executable_entry_attempts(env)
                 ELSE executable_entry_attempts(env) \o post_install_attempts(env, "executable")
    IN  IF e # << >>
        THEN Attempting(Raises(<< "Failed to execute installer:" >> \o e, dir, FALSE), steps)
        ELSE Attempting(Returns(MsgExecuted \o WithIntegration, dir, FALSE), steps)

\* install_file, line 1166: getattr(self, f"install_{ext.replace('.', '_')}")
\* for an ext of the accepted list
install_func(p, env, dir) ==
    LET ext == DotToUnderscore(get_file_type(p)) IN
    CASE ext \in { "deb", "snap", "flatpak" } -> install_with_tool(ext, p, env, dir)
      [] ext = "appimage" -> install_appimage(p, env, dir)
      [] ext \in { "tar_gz", "tar_xz", "tgz" } -> install_tar(ext, p, env, dir)
      [] ext \in { "run", "bin" } -> install_executable(ext, p, env, dir)

\* shutil.move takes the file away from where it was
DiskAfter(p, moved) == IF moved THEN [ disk EXCEPT ![p] = "missing" ] ELSE disk

\* BatchInstaller.run, lines 303-304 and 309-310: the task after the procedure
\* returned or raised
run_result(t, r) ==
    [ t EXCEPT !.status = IF r.ok THEN "completed" ELSE "failed",
               !.message = r.message ]

\* lines 306 and 313: the signal emitted
task_completed(t, r) == TaskCompleted(t.task_id, r.ok, r.message)

\* the texts of the progress signals
MsgStarting(p) == << "Starting installation of" >> \o p
MsgInstalling  == << "Installing..." >>
MsgFailedWith(e) == << "Failed:" >> \o e

\* the signals run() emits for one task, with line 300 left out: no progress
\* 50 before the procedure is called
signals_without_installing(t, r) ==
    << ProgressUpdated(t.task_id, 10, MsgStarting(t.file_path)),
       ProgressUpdated(t.task_id, 100,
                       IF r.ok THEN r.message ELSE MsgFailedWith(r.message)),
       task_completed(t, r) >>

\* the signals run() emits for one task, in order: progress 10 (291), progress
\* 50 once a procedure was found (300), progress 100 with the result (305) or
\* with the exception's text (312), task_completed (306, 313)
signals(t, r) ==
    << ProgressUpdated(t.task_id, 10, MsgStarting(t.file_path)) >>
    \o ( IF BatchResolves(t.file_path)
         THEN << ProgressUpdated(t.task_id, 50, MsgInstalling) >> ELSE << >> )
    \o << ProgressUpdated(t.task_id, 100,
                          IF r.ok THEN r.message ELSE MsgFailedWith(r.message)),
          task_completed(t, r) >>

\* BatchInstaller.run, lines 290-313: the procedure is looked up and run; it
\* returns (status completed) or raises (status failed); the progress
\* signals and task_completed are emitted in both branches
batch_try(w, envs) ==
    /\ batches[w].pc = "try"
    /\ LET t == batches[w].task IN
       \E r \in { batch_install_func(tasks[t].file_path, env, app_dir) : env \in envs } :
         /\ tasks' = [ tasks EXCEPT ![t] = run_result(tasks[t], r) ]
         /\ events' = events \o signals(tasks[t], r)
         /\ app_dir' = r.dir
         /\ disk' = DiskAfter(tasks[t].file_path, r.moved)
    /\ batches' = [ batches EXCEPT ![w].pc = "end_time" ]
    /\ UNCHANGED << has_set_installer, exception, appended, probe,
                    installation_queue, history_vars,
                    current_batch_installer, batch_install_button, single_vars >>

\* line 315 with the emit of line 317 indented into the loop body
batch_end_time_emits_finished(w) ==
    /\ batches[w].pc = "end_time"
    /\ tasks' = [ tasks EXCEPT ![batches[w].task].end_time = Now(w) ]
    /\ batches' = [ batches EXCEPT ![w].pc = "loop", ![w].task = None,
                                    ![w].clock = @ + 1 ]
    /\ events' = Append(events, BatchFinished)
    /\ UNCHANGED << fixed_vars, installation_queue, history_vars,
                    current_batch_installer, batch_install_button, single_vars >>

\* BatchInstaller.run, line 315
batch_end_time(w) ==
    /\ batches[w].pc = "end_time"
    /\ tasks' = [ tasks EXCEPT ![batches[w].task].end_time = Now(w) ]
    /\ batches' = [ batches EXCEPT ![w].pc = "loop", ![w].task = None,
                                    ![w].clock = @ + 1 ]
    /\ UNCHANGED << fixed_vars, installation_queue, history_vars,
                    current_batch_installer, batch_install_button, single_vars, events >>

\* --------------------------------------------- main-thread batch handlers
\* next((t for t in installation_queue if t.task_id == task_id), None)
FirstWithId(queue, task_id) ==
    LET hits == { i \in 1..Len(queue) : tasks[queue[i]].task_id = task_id }
    IN  IF hits = {} THEN None
        ELSE queue[CHOOSE i \in hits : \A j \in hits : i <= j]

\* on_batch_task_completed: the first queued task with the event's id gets the
\* event's outcome, is appended to the history (save_history_entry), and the
\* history is reloaded from history.json (load_history)
on_batch_task_completed(wr) ==
    /\ events # <<>>
    /\ Head(events).sig = "task_completed"
    /\ events' = Tail(events)
    /\ LET e == Head(events)
           t == FirstWithId(installation_queue, e.task_id)
       IN  IF t = None
           THEN UNCHANGED << tasks, history_vars, exception >>
           ELSE /\ tasks' = [ tasks EXCEPT
                               ![t].status = IF e.success THEN "completed" ELSE "failed",
                               ![t].message = e.message ]
                /\ history_file' =
                     written_file(history_file,
                                  Append(installation_history, tasks'[t]), wr)
                /\ installation_history' = load_history(history_file')
                /\ exception' = LoadException(history_file')
    /\ UNCHANGED << has_set_installer, disk, app_dir, appended, probe,
                    installation_queue, batch_vars, single_vars >>

\* on_batch_progress: pass
on_batch_progress ==
    /\ events # <<>>
    /\ Head(events).sig = "progress_updated"
    /\ events' = Tail(events)
    /\ UNCHANGED << fixed_vars, queue_vars, history_vars, batch_vars, single_vars >>

\* on_batch_finished
on_batch_finished ==
    /\ events # <<>>
    /\ Head(events).sig = "batch_finished"
    /\ events' = Tail(events)
    /\ current_batch_installer' = None
    /\ batch_install_button' = TRUE
    /\ UNCHANGED << fixed_vars, queue_vars, history_vars, batches, single_vars >>

\* the "Refresh" button of the history tab: load_history
refresh_history ==
    /\ installation_history' = load_history(history_file)
    /\ exception' = LoadException(history_file)
    /\ UNCHANGED << has_set_installer, disk, app_dir, appended, probe, queue_vars,
                    history_file, batch_vars, single_vars, events >>

\* clear_history, answered Yes: the list is emptied and history.json removed
\* (a failing os.remove is logged and leaves the file)
clear_history ==
    /\ installation_history' = <<>>
    /\ \E removed \in BOOLEAN :
         history_file' = IF removed /\ history_file.state # "missing"
                         THEN [ state |-> "missing", data |-> <<>> ]
                         ELSE history_file
    /\ UNCHANGED << fixed_vars, queue_vars, batch_vars, single_vars, events >>

\* the n-th task handed to the ledger: a finished task, told apart by its times
LedgerEntry(n) ==
    [ NewTask(PathDeb) EXCEPT
        !.status = IF n % 2 = 0 THEN "completed" ELSE "failed",
        !.progress = 0,
        !.message = IF n % 2 = 0 THEN MsgInstalled ELSE MsgFailed,
        !.start_time = << 0, n >>,
        !.end_time = << 0, n + 1 >> ]

\* lines 993-995 on their own: save_history_entry(task), every write
\* succeeding, then load_history
ledger_append ==
    /\ appended < MaxAppends
    /\ appended' = appended + 1
    /\ history_file' =
         written_file(history_file,
                      Append(installation_history, LedgerEntry(appended + 1)), "ok")
    /\ installation_history' = load_history(history_file')
    /\ exception' = LoadException(history_file')
    /\ UNCHANGED << has_set_installer, disk, app_dir, probe, queue_vars, batch_vars,
                    single_vars, events >>

\* ------------------------------------------------ history.json as found
\* the entries a history.json not written by this session can hold: two
\* well-formed ones, one without the key file_path, one whose status is null
StoreEntries ==
    { to_dict(LedgerEntry(1)), to_dict(LedgerEntry(2)),
      [ to_dict(LedgerEntry(1)) EXCEPT !.file_path = absent ],
      [ to_dict(LedgerEntry(2)) EXCEPT !.status = NoneStatus ] }

\* history.json: missing, unparsable, or a list of one or two entries
StoreContents ==
    { [ state |-> "missing", data |-> <<>> ], [ state |-> "corrupt", data |-> <<>> ] }
    \cup { [ state |-> "ok", data |-> << e >> ] : e \in StoreEntries }
    \cup { [ state |-> "ok", data |-> << e, f >> ] : e \in StoreEntries, f \in StoreEntries }

\* history.json is replaced from outside (an editor, a restored backup, an
\* earlier version of the program)
store_replaced(file) ==
    /\ history_file' = file
    /\ UNCHANGED << fixed_vars, queue_vars, installation_history, batch_vars,
                    single_vars, events >>

\* ------------------------------------------- to_dict / from_dict on a task
\* the disk with the file behind a.deb in state st
DiskWith(st) == [ p \in AllPaths |-> IF p = PathDeb THEN st ELSE "v1" ]

\* the tasks serialized: created from a.deb as the disk has it, with or
\* without an id of their own, then in any status, progress, message and times
ProbeTasks ==
    { [ InstallationTask(PathDeb, id) EXCEPT
          !.status = st, !.progress = pr, !.message = msg,
          !.start_time = t1, !.end_time = t2 ] :
        id \in { NoId, << "id7" >> },
        st \in { "queued", "installing", "completed", "failed" },
        pr \in { 0, 50, 100 },
        msg \in { <<>>, MsgInstalled },
        t1 \in { NoTime, << 0, 1 >> },
        t2 \in { NoTime, << 0, 2 >> } }

InitCodec ==
    /\ Init
    /\ has_set_installer

\* the file behind the task's path is replaced, made unreadable or deleted
file_changes(st) ==
    /\ probe # <<>>
    /\ disk' = [ disk EXCEPT ![PathDeb] = st ]
    /\ UNCHANGED << has_set_installer, app_dir, exception, appended, probe, queue_vars,
                    history_vars, batch_vars, single_vars, events >>

\* a task is created from the file as it is
create_task(t) ==
    /\ probe = <<>>
    /\ probe' = [ stage |-> "task", task |-> t, dict |-> to_dict(t), back |-> t ]
    /\ UNCHANGED << has_set_installer, disk, app_dir, exception, appended, queue_vars,
                    history_vars, batch_vars, single_vars, events >>

\* first the file changes under the program: any state before the task exists
disk_before(st) ==
    /\ probe = <<>>
    /\ disk' = DiskWith(st)
    /\ UNCHANGED << has_set_installer, app_dir, exception, appended, probe, queue_vars,
                    history_vars, batch_vars, single_vars, events >>

\* task.to_dict()
to_dict_step ==
    /\ probe # <<>>
    /\ probe.stage = "task"
    /\ probe' = [ probe EXCEPT !.stage = "dict", !.dict = to_dict(probe.task) ]
    /\ UNCHANGED << has_set_installer, disk, app_dir, exception, appended, queue_vars,
                    history_vars, batch_vars, single_vars, events >>

\* InstallationTask.from_dict(data)
from_dict_step ==
    /\ probe # <<>>
    /\ probe.stage = "dict"
    /\ probe' = [ probe EXCEPT !.stage = "back", !.back = from_dict(probe.dict) ]
    /\ UNCHANGED << has_set_installer, disk, app_dir, exception, appended, queue_vars,
                    history_vars, batch_vars, single_vars, events >>

\* ------------------------------------------------------ interactive install
BusyNotice       == "Installation already in progress. Please wait."
InstallingNotice == "Installing"

\* the state of a file when a request for it is handled
FileConds == { "ok", "not_file", "missing", "unreadable", "empty" }
File(p, c) == [ path |-> p, cond |-> c ]

\* what a drop or the file dialog of browse_files can deliver: every single
\* file in every state, and the pairs whose first file is accepted, skipped,
\* or rejected
FileSelections ==
    { <<File(p, c)>> : p \in DropPaths, c \in FileConds }
    \cup { << File(PathDeb, "ok"), File(PathDeb, "ok") >>,
           << File(PathDeb, "not_file"), File(PathDeb, "ok") >>,
           << File(PathDeb, "empty"), File(PathDeb, "ok") >>,
           << File(PathXyz, "ok"), File(PathDeb, "ok") >> }

\* the variables install_file reads and writes, as one record
SingleState ==
    [ installing |-> installing, current_worker |-> current_worker,
      install_workers |-> install_workers, ui_enabled |-> ui_enabled,
      status_label |-> status_label, dialog |-> dialog,
      dialog_text |-> dialog_text ]

\* InstallWorker.__init__
NewInstallWorker(p) == [ file_path |-> p, pc |-> "running" ]

\* show_error(message) in install_file: the message box it opens
ErrorDialog(f) ==
    CASE f.cond = "missing"    -> "File does not exist"
      [] f.cond = "unreadable" -> "File is not readable"
      [] f.cond = "empty"      -> "File is empty"
      [] OTHER                 -> "Unsupported file type"

\* install_file without its two busy tests
install_file_without_busy_test(s, f) ==
    IF f.cond \in { "missing", "unreadable", "empty" }
    THEN [ s EXCEPT !.dialog = ErrorDialog(f), !.dialog_text = << ErrorDialog(f) >> ]
    ELSE IF get_file_type(f.path) \notin InteractiveSupported
    THEN [ s EXCEPT !.dialog = ErrorDialog(f), !.dialog_text = << ErrorDialog(f) >> ]
    ELSE [ s EXCEPT
             !.installing = TRUE,
             !.current_worker = Len(s.install_workers) + 1,
             !.install_workers = Append(s.install_workers, NewInstallWorker(f.path)),
             !.ui_enabled = FALSE,
             !.status_label = InstallingNotice ]

\* install_file raising the installing flag before it looks at the file
install_file_flag_first(s, f) ==
    IF s.installing
    THEN [ s EXCEPT !.status_label = BusyNotice ]
    ELSE IF s.current_worker # None
            /\ s.install_workers[s.current_worker].pc = "running"
    THEN [ s EXCEPT !.status_label = BusyNotice ]
    ELSE IF f.cond \in { "missing", "unreadable", "empty" }
            \/ get_file_type(f.path) \notin InteractiveSupported
    THEN [ s EXCEPT !.installing = TRUE,
                    !.dialog = ErrorDialog(f), !.dialog_text = << ErrorDialog(f) >> ]
    ELSE [ s EXCEPT
             !.installing = TRUE,
             !.current_worker = Len(s.install_workers) + 1,
             !.install_workers = Append(s.install_workers, NewInstallWorker(f.path)),
             !.ui_enabled = FALSE,
             !.status_label = InstallingNotice ]

\* install_file: the state it leaves
install_file(s, f) ==
    IF s.installing
    THEN [ s EXCEPT !.status_label = BusyNotice ]
    ELSE IF s.current_worker # None
            /\ s.install_workers[s.current_worker].pc = "running"
    THEN [ s EXCEPT !.status_label = BusyNotice ]
    ELSE IF f.cond \in { "missing", "unreadable", "empty" }
    THEN [ s EXCEPT !.dialog = ErrorDialog(f), !.dialog_text = << ErrorDialog(f) >> ]
    ELSE IF get_file_type(f.path) \notin InteractiveSupported
    THEN [ s EXCEPT !.dialog = ErrorDialog(f), !.dialog_text = << ErrorDialog(f) >> ]
    ELSE [ s EXCEPT
             !.installing = TRUE,
             !.current_worker = Len(s.install_workers) + 1,
             !.install_workers = Append(s.install_workers, NewInstallWorker(f.path)),
             !.ui_enabled = FALSE,
             !.status_label = InstallingNotice ]

\* for file_path in files: if os.path.isfile(file_path): self.install_file(file_path)
RECURSIVE install_each(_, _)
install_each(s, files) ==
    IF files = <<>> THEN s
    ELSE install_each(IF Head(files).cond = "not_file" THEN s
                      ELSE install_file(s, Head(files)),
                      Tail(files))

\* dropEvent and browse_files: the busy test, then install_file on each file
request_files(s, files) ==
    IF s.installing
    THEN [ s EXCEPT !.status_label = BusyNotice ]
    ELSE install_each(s, files)

SetSingleState(s) ==
    /\ Len(s.install_workers) <= MaxInstalls
    /\ installing' = s.installing
    /\ current_worker' = s.current_worker
    /\ install_workers' = s.install_workers
    /\ ui_enabled' = s.ui_enabled
    /\ status_label' = s.status_label
    /\ dialog' = s.dialog
    /\ dialog_text' = s.dialog_text

\* dropEvent
dropEvent(files) ==
    /\ SetSingleState(request_files(SingleState, files))
    /\ UNCHANGED << fixed_vars, queue_vars, history_vars, batch_vars, events >>

\* browse_files (the Browse button, and the Install button through
\* start_installation)
browse_files(files) ==
    /\ SetSingleState(request_files(SingleState, files))
    /\ UNCHANGED << fixed_vars, queue_vars, history_vars, batch_vars, events >>

\* signals of an InstallWorker, as posted to the main thread
InstallFinished(msg) == [ sig |-> "finished", task_id |-> <<>>, success |-> TRUE,
                          message |-> msg ]
InstallError(msg) == [ sig |-> "error", task_id |-> <<>>, success |-> FALSE,
                       message |-> msg ]

\* InstallWorker.run, lines 409 and 411: the signal emitted
worker_signal(r) == IF r.ok THEN InstallFinished(r.message) ELSE InstallError(r.message)

\* InstallWorker.run: the procedure returns (finished is emitted with what it
\* returned) or raises (error is emitted with the text of the exception)
install_worker_run(i, envs) ==
    /\ install_workers[i].pc = "running"
    /\ install_workers' = [ install_workers EXCEPT ![i].pc = "done" ]
    /\ \E r \in { install_func(install_workers[i].file_path, env, app_dir) : env \in envs } :
         /\ events' = Append(events, worker_signal(r))
         /\ app_dir' = r.dir
         /\ disk' = DiskAfter(install_workers[i].file_path, r.moved)
    /\ UNCHANGED << has_set_installer, exception, appended, probe,
                    queue_vars, history_vars, batch_vars,
                    current_worker, installing, ui_enabled, status_label, dialog,
                    dialog_text >>

\* on_install_finished
on_install_finished ==
    /\ events # <<>>
    /\ Head(events).sig = "finished"
    /\ events' = Tail(events)
    /\ installing' = FALSE
    /\ current_worker' = None
    /\ ui_enabled' = TRUE
    /\ status_label' = ""
    /\ dialog' = "Success"
    /\ dialog_text' = Head(events).message
    /\ UNCHANGED << fixed_vars, queue_vars, history_vars, batch_vars,
                    install_workers >>

\* on_install_error leaving the flag and the widgets as they are
on_install_error_keeps_flag ==
    /\ events # <<>>
    /\ Head(events).sig = "error"
    /\ events' = Tail(events)
    /\ current_worker' = None
    /\ status_label' = ""
    /\ dialog' = "Installation Failed"
    /\ dialog_text' = Head(events).message
    /\ UNCHANGED << fixed_vars, queue_vars, history_vars, batch_vars,
                    install_workers, installing, ui_enabled >>

\* on_install_error
on_install_error ==
    /\ events # <<>>
    /\ Head(events).sig = "error"
    /\ events' = Tail(events)
    /\ installing' = FALSE
    /\ current_worker' = None
    /\ ui_enabled' = TRUE
    /\ status_label' = ""
    /\ dialog' = "Installation Failed"
    /\ dialog_text' = Head(events).message
    /\ UNCHANGED << fixed_vars, queue_vars, history_vars, batch_vars,
                    install_workers >>

\* ---------------------------------------------------------- specification
\* the queue tab
NextQueue ==
    \/ \E files \in PathSelections : add_to_queue(files)
    \/ \E p \in Paths : remove_from_queue(TaskId(p))
    \/ clear_queue

\* the batch worker threads
NextWorker ==
    \/ start_batch_installation
    \/ \E w \in 1..Len(batches) : batch_loop(w)
    \/ \E w \in 1..Len(batches) : batch_start_time(w)
    \/ \E w \in 1..Len(batches) : batch_try(w, BatchEnvs)
    \/ \E w \in 1..Len(batches) : batch_end_time(w)

\* the main-thread handlers of the batch signals
NextBatchHandlers ==
    \/ on_batch_progress
    \/ \E wr \in WriteOutcomes : on_batch_task_completed(wr)
    \/ on_batch_finished

\* the same, when every write of history.json succeeds
NextBatchHandlersDurable ==
    \/ on_batch_progress
    \/ on_batch_task_completed("ok")
    \/ on_batch_finished

\* the history tab
NextHistory ==
    \/ refresh_history
    \/ clear_history

\* the interactive (drop / browse) path
NextSingle ==
    \/ \E files \in FileSelections : dropEvent(files)
    \/ \E files \in FileSelections : browse_files(files)
    \/ \E i \in 1..Len(install_workers) : install_worker_run(i, InstallEnvs)
    \/ on_install_finished
    \/ on_install_error

Next == NextQueue \/ NextWorker \/ NextBatchHandlers \/ NextHistory \/ NextSingle

\* the whole program
Spec == Init /\ [][Next]_vars

\* The batch path and the interactive path share no variable but events, and
\* every handler of a posted signal is enabled whenever its signal is the
\* oldest one, so neither path can hold up or change the other.  Each path is
\* explored on its own.
SpecBatch ==
    Init /\ [][NextQueue \/ NextWorker \/ NextBatchHandlers \/ NextHistory]_vars

\* the batch path in the sessions where history.json is always written and
\* the history is never cleared
SpecDurable == Init /\ [][NextQueue \/ NextWorker \/ NextBatchHandlersDurable]_vars

\* the batch worker threads when no command reaches the time limit
NextWorkerQuick ==
    \/ start_batch_installation
    \/ \E w \in 1..Len(batches) : batch_loop(w)
    \/ \E w \in 1..Len(batches) : batch_start_time(w)
    \/ \E w \in 1..Len(batches) : batch_try(w, QuickEnvs)
    \/ \E w \in 1..Len(batches) : batch_end_time(w)

\* the batch scheduler alone: sessions in which every queued file is the same
\* .deb package, no command reaches the time limit and every write of
\* history.json succeeds
NextQueueDeb ==
    \/ add_to_queue(<< PathDeb >>)
    \/ remove_from_queue(TaskId(PathDeb))
    \/ clear_queue

SpecSched == Init /\ [][NextQueueDeb \/ NextWorkerQuick \/ NextBatchHandlersDurable]_vars

\* the main-thread handlers of the batch signals when history.json cannot be
\* opened for writing: the history stays as it was loaded
NextBatchHandlersReadOnly ==
    \/ on_batch_progress
    \/ on_batch_task_completed("open_failed")
    \/ on_batch_finished

\* the batch scheduler and its signals: sessions in which no command reaches
\* the time limit and history.json cannot be opened for writing
SpecSignals == Init /\ [][NextQueue \/ NextWorkerQuick \/ NextBatchHandlersReadOnly]_vars

SpecSingle == Init /\ [][NextSingle]_vars

\* the interactive path in the sessions where no command reaches the time
\* limit and no step of the desktop integration fails
NextSingleQuick ==
    \/ \E files \in FileSelections : dropEvent(files)
    \/ \E files \in FileSelections : browse_files(files)
    \/ \E i \in 1..Len(install_workers) : install_worker_run(i, QuickEnvs)
    \/ on_install_finished
    \/ on_install_error

SpecSingleQuick == Init /\ [][NextSingleQuick]_vars

\* the installation procedures alone: one procedure at a time is run on a
\* file, in ~/Applications as the earlier runs and the user left it
ProcPaths == { PathDeb, PathApp, PathTgz, PathRun }

InitProc ==
    /\ Init
    /\ has_set_installer

\* a run meets a file that is there, or fails at its first step
Meets(p, env) == disk[p] = "missing" => (~env.os /\ ~env.tool)

\* BatchInstaller.run, lines 290-313, on a task of p
batch_procedure ==
    /\ probe = <<>>
    /\ appimage_dest(app_dir) <= MaxSlots
    /\ \E p \in ProcPaths : \E env \in BatchEnvs :
         /\ Meets(p, env)
         /\ LET t == [ NewTask(p) EXCEPT !.status = "installing" ]
                r == batch_install_func(p, env, app_dir)
            IN  /\ probe' = [ stage |-> "batch", path |-> p, env |-> env,
                              before |-> app_dir, result |-> r,
                              task |-> run_result(t, r),
                              signal |-> task_completed(t, r) ]
                /\ app_dir' = r.dir
                /\ disk' = DiskAfter(p, r.moved)
    /\ UNCHANGED << has_set_installer, exception, appended,
                    queue_vars, history_vars, batch_vars, single_vars, events >>

\* InstallWorker.run on p
interactive_procedure ==
    /\ probe = <<>>
    /\ appimage_dest(app_dir) <= MaxSlots
    /\ \E p \in ProcPaths : \E env \in InstallEnvs :
         /\ Meets(p, env)
         /\ LET r == install_func(p, env, app_dir)
            IN  /\ probe' = [ stage |-> "interactive", path |-> p, env |-> env,
                              before |-> app_dir, result |-> r,
                              task |-> << >>,
                              signal |-> worker_signal(r) ]
                /\ app_dir' = r.dir
                /\ disk' = DiskAfter(p, r.moved)
    /\ UNCHANGED << has_set_installer, exception, appended,
                    queue_vars, history_vars, batch_vars, single_vars, events >>

\* the run is over
procedure_done ==
    /\ probe # <<>>
    /\ probe' = <<>>
    /\ UNCHANGED << has_set_installer, disk, app_dir, exception, appended,
                    queue_vars, history_vars, batch_vars, single_vars, events >>

\* the user deletes a file from ~/Applications
delete_slot(k) ==
    /\ probe = <<>>
    /\ k \in app_dir
    /\ app_dir' = app_dir \ { k }
    /\ UNCHANGED << has_set_installer, disk, exception, appended, probe,
                    queue_vars, history_vars, batch_vars, single_vars, events >>

\* a file of the same name is put where the moved one was
download(p) ==
    /\ probe = <<>>
    /\ disk[p] = "missing"
    /\ disk' = [ disk EXCEPT ![p] = "v1" ]
    /\ UNCHANGED << has_set_installer, app_dir, exception, appended, probe,
                    queue_vars, history_vars, batch_vars, single_vars, events >>

SpecProc ==
    InitProc /\ [][ \/ batch_procedure
                    \/ interactive_procedure
                    \/ procedure_done
                    \/ \E k \in 0..MaxSlots : delete_slot(k)
                    \/ \E p \in ProcPaths : download(p) ]_vars

\* format detection alone.  A path is the list of the dot-separated segments
\* of its file name: a.tar.gz is << "a", "tar", "gz" >>, the hidden file
\* .gz is << "", "gz" >> and a. is << "a", "" >>.
Segments == { "", "a", "tar", "gz", "xz", "TAR", "GZ", "deb" }
DetectPaths == UNION { [ 1..n -> Segments ] : n \in 1..MaxSegments }

\* get_file_type(file_path), as both BatchInstaller.run and install_file call it
detect(p) ==
    /\ probe = <<>>
    /\ probe' = [ stage |-> "tag", path |-> p, tag |-> get_file_type(p),
                  batch_tag |-> get_file_type(p) ]
    /\ UNCHANGED << has_set_installer, disk, app_dir, exception, appended,
                    queue_vars, history_vars, batch_vars, single_vars, events >>

SpecDetect == Init /\ [][\E p \in DetectPaths : detect(p)]_vars

\* the two dispatch tests alone, on one path: whether BatchInstaller.run finds
\* an install method for its tag (lines 293-297) and whether install_file
\* finds the tag in its list (lines 1152-1153)
DispatchPaths == DetectPaths \cup AllPaths \cup { << "h", "tar_gz" >> }

dispatch(p) ==
    /\ probe = <<>>
    /\ probe' = [ stage |-> "dispatch", path |-> p,
                  install_func |-> BatchResolves(p),
                  supported |-> get_file_type(p) \in InteractiveSupported ]
    /\ UNCHANGED << has_set_installer, disk, app_dir, exception, appended,
                    queue_vars, history_vars, batch_vars, single_vars, events >>

SpecDispatch == Init /\ [][\E p \in DispatchPaths : dispatch(p)]_vars

\* the batch path on files whose type is not one of the accepted types:
\* sessions in which every queued file is g.executable or c.xyz and every write of
\* history.json succeeds
NextQueueTags ==
    \/ \E p \in { PathExe, PathXyz } : add_to_queue(<< p >>)
    \/ \E p \in { PathExe, PathXyz } : remove_from_queue(TaskId(p))
    \/ clear_queue

SpecTags == Init /\ [][NextQueueTags \/ NextWorker \/ NextBatchHandlersDurable]_vars

\* to_dict and from_dict alone, on every task of ProbeTasks, the file
\* changing at any time
SpecCodec ==
    InitCodec /\ [][ \/ \E st \in FileStates : disk_before(st)
                     \/ \E t \in ProbeTasks : create_task(t)
                     \/ \E st \in FileStates : file_changes(st)
                     \/ to_dict_step
                     \/ from_dict_step ]_vars

\* load_history alone, on every history.json of StoreContents
SpecLoad ==
    Init /\ [][ \/ \E file \in StoreContents : store_replaced(file)
                \/ refresh_history
                \/ clear_history ]_vars

\* the history ledger alone: appends from an empty ledger, and reloads
SpecLedger == Init /\ [][ledger_append \/ refresh_history]_vars

\* the batch scheduler with a holder of the thread that may ask it to stop,
\* up to the end of the batch: the completion signals are handled as they
\* come, batch_finished is posted and not handled yet
NextStop == \E w \in 1..Len(batches) : request_stop(w)

SpecStop ==
    Init /\ [][NextQueueDeb \/ NextWorkerQuick \/ on_batch_progress
                \/ on_batch_task_completed("ok") \/ NextStop]_vars

\* Scheduling: a started thread keeps running (the procedure it calls returns
\* or raises), and the Qt event loop handles every posted signal.
BatchStep(w) ==
    /\ w <= Len(batches)
    /\ \/ batch_loop(w) \/ batch_start_time(w) \/ batch_end_time(w)
       \/ batch_try(w, BatchEnvs)

InstallStep(i) ==
    i <= Len(install_workers) /\ install_worker_run(i, QuickEnvs)

FairBatch ==
    /\ SpecBatch
    /\ \A w \in 1..MaxBatches : WF_vars(BatchStep(w))
    /\ WF_vars(NextBatchHandlers)

BatchStepQuick(w) ==
    /\ w <= Len(batches)
    /\ \/ batch_loop(w) \/ batch_start_time(w) \/ batch_end_time(w)
       \/ batch_try(w, QuickEnvs)

FairStop ==
    /\ SpecStop
    /\ \A w \in 1..MaxBatches : WF_vars(BatchStepQuick(w))
    /\ WF_vars(on_batch_progress \/ on_batch_task_completed("ok"))

FairSingle ==
    /\ SpecSingleQuick
    /\ \A i \in 1..MaxInstalls : WF_vars(InstallStep(i))
    /\ WF_vars(on_install_finished \/ on_install_error)

\* ------------------------------------------------------------------ claims
\* an edge of Queued -> Installing -> {Completed, Failed}, or no change
StatusEdge(a, b) ==
    \/ a = b
    \/ a = "queued" /\ b = "installing"
    \/ a = "installing" /\ b \in Terminal

C2_StartBatchRunsAllTasks ==
    /\ [][ Len(batches') = Len(batches) + 1
             => batches'[Len(batches')].pc \notin { "unstarted", "finished" } ]_vars
    /\ \A w \in 1..MaxBatches : \A t \in 1..MaxTasks :
         [](( /\ w <= Len(batches)
              /\ \E i \in 1..Len(batches[w].tasks) : batches[w].tasks[i] = t )
            => <>(t <= Len(tasks) /\ tasks[t].status \in Terminal))

InFlight == { i \in 1..Len(install_workers) : install_workers[i].pc = "running" }

\* C4: at most one interactive installation is in flight; a request handled
\* while the installing flag is set starts no worker (and nothing is kept of
\* it), and one request (however many files) starts at most one worker.
C4_SingleFlight ==
    [][ /\ Cardinality(InFlight') <= 1
        /\ installing => Len(install_workers') = Len(install_workers)
        /\ Len(install_workers') <= Len(install_workers) + 1 ]_vars

\* C4's case: a request was rejected with the busy notice while the one
\* worker was in flight.
C4_Witness ==
    installing /\ status_label = BusyNotice /\ Cardinality(InFlight) = 1

ReportSigs == { "finished", "error" }

\* C5: every accepted interactive install releases the flag: the worker posts
\* exactly one report (finished or error) when it ends, the handler of either
\* report clears the flag and re-enables drop and browse, and with the flag
\* clear nothing stands in the way of the next request.
C5_FlagReleased ==
    /\ installing ~> (~installing /\ ui_enabled)
    /\ [][ \A i \in 1..Len(install_workers) :
             /\ (install_workers[i].pc = "running" /\ install_workers'[i].pc = "done")
                  => /\ Len(events') = Len(events) + 1
                     /\ events'[Len(events')].sig \in ReportSigs
             /\ install_workers[i].pc = "done" => install_workers'[i].pc = "done" ]_vars
    /\ [][ (events # <<>> /\ Head(events).sig \in ReportSigs /\ events' = Tail(events))
             => (~installing' /\ ui_enabled' /\ current_worker' = None) ]_vars
    /\ [](~installing => (current_worker = None /\ ui_enabled))

\* C5's case: a second request was accepted after the first install reported
\* and the flag was released.
C5_Witness ==
    /\ Len(install_workers) = 2
    /\ install_workers[1].pc = "done"
    /\ installing
    /\ dialog \in { "Success", "Installation Failed" }

\* the batch threads that are running
RunningBatches == { w \in 1..Len(batches) : isRunning(w) }

\* the test of line 969 turns a start request down
StartRejected ==
    current_batch_installer # None /\ isRunning(current_batch_installer)

Quiescent ==
    /\ events = <<>>
    /\ \A w \in 1..Len(batches) : ~isRunning(w)

\* the history entry e records task t (the end time apart)
Describes(e, t) ==
    /\ e.task_id = t.task_id
    /\ e.file_path = t.file_path
    /\ e.status = t.status
    /\ e.message = t.message
    /\ e.start_time = t.start_time

C10_InteractiveOutcomeInHistory ==
    [][ (installing /\ ~installing')
          => Len(installation_history') = Len(installation_history) + 1 ]_vars

\* the handler of task_completed takes a step, and finds the task in the queue
CompletionHandled ==
    /\ events # <<>>
    /\ Head(events).sig = "task_completed"
    /\ events' = Tail(events)
    /\ FirstWithId(installation_queue, Head(events).task_id) # None

ExpectedSuffix(n) ==
    LET k == IF n <= 1000 THEN n ELSE 1000
    IN  [ i \in 1..k |-> LedgerEntry(n - k + i) ]

C13_RoundTripIsIdentity ==
    (probe # <<>> /\ probe.stage \in { "dict", "back" }) =>
        /\ (probe.task.start_time = NoTime) <=> (probe.dict.start_time = null)
        /\ (probe.task.end_time = NoTime) <=> (probe.dict.end_time = null)
        /\ probe.stage = "back" =>
             /\ probe.back.task_id = probe.task.task_id
             /\ probe.back.file_path = probe.task.file_path
             /\ probe.back.status = probe.task.status
             /\ probe.back.progress = probe.task.progress
             /\ probe.back.message = probe.task.message
             /\ probe.back.start_time = probe.task.start_time
             /\ probe.back.end_time = probe.task.end_time
             /\ probe.back.file_hash = probe.task.file_hash
             /\ probe.back.file_size = probe.task.file_size

\* C13's case: a task with a hash and no start time was read back after its
\* file was deleted.
C13_Witness ==
    /\ probe # <<>>
    /\ probe.stage = "back"
    /\ disk[PathDeb] = "missing"
    /\ probe.task.file_hash = << "sha256", "v2" >>
    /\ probe.task.start_time = NoTime
    /\ probe.task.end_time # NoTime

\* history.json is missing, unparsable, or holds an entry from_dict fails on
StoreBad(file) ==
    \/ file.state # "ok"
    \/ \E i \in 1..Len(file.data) : from_dict_raises(file.data[i])

\* C14: load_history never raises to its caller, and on a history.json that
\* is missing, unparsable or holds an entry that cannot be deserialized it
\* leaves the in-memory history empty.
C14_LoadNeverRaises ==
    /\ exception = ""
    /\ \A file \in StoreContents : StoreBad(file) => load_history(file) = <<>>

Tags == { Lower(seg) : seg \in Segments } \cup { "tar.gz", "tar.xz" }

\* C16: format detection is a total, deterministic function of the path: it
\* yields a tag for every path, the same one on every call; a path ending in
\* .tar.gz or .tar.xz yields the tar-gzip or tar-xz tag and never gz or xz;
\* every other path yields the tag of its single trailing suffix, or the empty
\* (unsupported) tag.
C16_DetectionTotalDeterministic ==
    (probe # <<>> /\ probe.stage = "tag") =>
      LET p == probe.path
          n == Len(p)
          two(z) == n >= 3 /\ p[n-1] = "tar" /\ p[n] = z
      IN  /\ probe.tag \in Tags
          /\ probe.batch_tag = probe.tag
          /\ two("gz") => probe.tag = "tar.gz"
          /\ two("xz") => probe.tag = "tar.xz"
          /\ ~(two("gz") \/ two("xz")) => probe.tag \in { Lower(p[n]), "" }

C16_Witness ==
    /\ probe # <<>>
    /\ probe.stage = "tag"
    /\ probe.path = << "a", "tar", "gz" >>
    /\ probe.tag = "tar.gz"

\* the slot an AppImage install took
TakenSlot == CHOOSE k \in app_dir : k \notin probe.before

\* C17: the destination of an AppImage install is never an occupied name and
\* collisions are numbered in strictly increasing order: the slot taken is
\* free, and it is higher than every slot that exists, so a slot freed
\* below an existing one is not used again.
C17_DestinationNeverReused ==
    ( probe # <<>> /\ probe.stage \in { "batch", "interactive" }
      /\ probe.path = PathApp /\ probe.result.moved /\ 0 \in probe.before )
    => /\ app_dir # probe.before
       /\ TakenSlot \notin probe.before
       /\ \A k \in probe.before : TakenSlot > k

\* the commands of the primary action of the procedure for p, and whether the
\* procedure gets as far as running them
PrimaryCommands(p, env) == Commands(DotToUnderscore(get_file_type(p)), p, env)
ReachesCommands(p, env) ==
    IF get_file_type(p) \in { "deb", "snap", "flatpak" } THEN env.tool ELSE env.os

\* the commands of the primary action that ran into the 300 s bound
TimedOut(p, env) ==
    LET cmds == PrimaryCommands(p, env) IN
    { cmds[k] : k \in { i \in 1..Len(cmds) :
                          /\ ReachesCommands(p, env)
                          /\ env.cmds[i] = "timeout"
                          /\ \A j \in 1..(i-1) : env.cmds[j] = "ok" } }

\* the database updates of the desktop integration that ran into the bound
UpdateDesktopDatabase == << "update-desktop-database" >>
UpdateMimeDatabase == << "update-mime-database" >>
PrimarySucceeded(p, env) ==
    /\ env.os
    /\ \A k \in 1..Len(PrimaryCommands(p, env)) : env.cmds[k] = "ok"
IntegrationTimedOut(p, env) ==
    IF ~PrimarySucceeded(p, env) THEN { }
    ELSE IF env.integ = "desktop database timeout"
              /\ get_file_type(p) \in { "appimage", "tar.gz", "run" }
         THEN { UpdateDesktopDatabase }
    ELSE IF env.integ = "mime database timeout" /\ get_file_type(p) = "appimage"
         THEN { UpdateMimeDatabase }
    ELSE { }

\* msg contains the words of cmd, in order and together
Contains(msg, cmd) ==
    \E i \in 1..(Len(msg) - Len(cmd) + 1) : SubSeq(msg, i, i + Len(cmd) - 1) = cmd

\* the run ended as a failure whose message contains cmd
FailedWith(cmd) ==
    IF probe.stage = "batch"
    THEN /\ probe.task.status = "failed"
         /\ ~probe.signal.success
         /\ Contains(probe.task.message, cmd)
         /\ Contains(probe.signal.message, cmd)
    ELSE /\ probe.signal.sig = "error"
         /\ Contains(probe.signal.message, cmd)

ProcedureRan == probe # <<>> /\ probe.stage \in { "batch", "interactive" }

\* C18 as stated: whenever an external command invoked for an installation
\* does not exit within 300 s, the installation ends as a failure (Task
\* Failed, never Completed) whose message contains the command, on both paths.
C18_TimeoutFails ==
    ProcedureRan =>
      \A cmd \in TimedOut(probe.path, probe.env)
                   \cup (IF probe.stage = "interactive"
                         THEN IntegrationTimedOut(probe.path, probe.env) ELSE { }) :
        FailedWith(cmd)

\* C18 amended: whenever a command of the primary action of a procedure does
\* not exit within 300 s, the installation ends as a failure (Task Failed,
\* never Completed) whose message contains the command, on both paths.
C18_PrimaryTimeoutFails ==
    ProcedureRan => \A cmd \in TimedOut(probe.path, probe.env) : FailedWith(cmd)

C18_Witness ==
    /\ ProcedureRan
    /\ probe.stage = "interactive"
    /\ probe.path = PathTgz
    /\ probe.env.script
    /\ probe.env.cmds = << "ok", "timeout" >>
    /\ TimedOut(probe.path, probe.env) = { ScriptCommand }
    /\ probe.signal.sig = "error"

\* an interactive run of one of the procedures that have a desktop integration
IntegratedRun ==
    /\ ProcedureRan
    /\ probe.stage = "interactive"
    /\ get_file_type(probe.path) \in { "appimage", "tar.gz", "tar.xz", "tgz", "run", "bin" }

\* C19: for appimage, tar and run/bin installs the failure of a Desktop
\* Integration step never changes the outcome: when the primary action (move,
\* extract plus install script, execute) succeeded, the procedure reports
\* success, whichever integration step failed.
C19_IntegrationNeverFatal ==
    ( IntegratedRun /\ PrimarySucceeded(probe.path, probe.env) )
    => /\ probe.result.ok
       /\ probe.signal.sig = "finished"
       /\ probe.signal.success

C19_Witness ==
    /\ IntegratedRun
    /\ probe.path = PathApp
    /\ PrimarySucceeded(probe.path, probe.env)
    /\ probe.env.integ = "icon"
    /\ probe.signal.sig = "finished"

\* the message of the same run had every integration step succeeded
AllSucceededMessage ==
    install_func(probe.path, [ probe.env EXCEPT !.integ = "none" ], probe.before).message

\* C20: when a Desktop Integration step fails after a successful install, the
\* completion message delivered for that install is the degraded notice and
\* differs from the message delivered when every integration step succeeded.
C20_DegradedNotice ==
    ( IntegratedRun /\ probe.result.ok /\ probe.env.integ # "none" )
    => /\ Contains(probe.signal.message, MsgDegraded)
       /\ probe.signal.message # AllSucceededMessage

\* the steps of the integration pipeline of a file type, in order
Pipeline(tag) ==
    IF tag = "appimage"
    THEN << "icon", "menu entry", "shortcut", "desktop database", "directories",
            "uninstall entry", "file associations" >>
    ELSE << "menu entry", "shortcut", "desktop database", "directories",
            "uninstall entry" >>

Range(seq) == { seq[i] : i \in 1..Len(seq) }

\* C21: the Desktop Integration steps are independent: whichever single step
\* fails, every step of the pipeline is still attempted.
C21_StepsIndependent ==
    ( IntegratedRun /\ PrimarySucceeded(probe.path, probe.env) )
    => Range(Pipeline(get_file_type(probe.path))) \subseteq Range(probe.result.attempted)

\* a batch run of one of the procedures that have a desktop integration on
\* the interactive path
IntegratedKinds == { "appimage", "tar.gz", "tar.xz", "tgz", "run", "bin" }
BatchRunOfIntegratedKind ==
    /\ ProcedureRan
    /\ probe.stage = "batch"
    /\ get_file_type(probe.path) \in IntegratedKinds

C23_BatchWorksOnItsSnapshot ==
    [][ /\ \A w \in 1..Len(batches') :
             IF w > Len(batches)
             THEN /\ batches'[w].tasks = installation_queue
                  /\ batches'[w].task = None
             ELSE \/ /\ batches'[w].tasks = batches[w].tasks
                     /\ batches'[w].task \in { batches[w].task, None }
                  \/ /\ batches[w].tasks # <<>>
                     /\ batches[w].task = None
                     /\ batches'[w].tasks = Tail(batches[w].tasks)
                     /\ batches'[w].task = Head(batches[w].tasks)
                     /\ installation_queue' = installation_queue
        /\ installation_queue' # installation_queue => batches' = batches ]_vars

\* C23's case: a batch started on two tasks is at work on the first, the
\* second still in its work list, and the installation queue has been
\* emptied meanwhile.
C23_Witness ==
    \E w \in 1..Len(batches) :
        /\ batches[w].pc = "try"
        /\ batches[w].tasks # <<>>
        /\ installation_queue = <<>>

\* the BatchInstaller thread that is at work on task t takes a step
WorkerStepOn(t) ==
    \E w \in 1..Len(batches) : batches[w].task = t /\ batches'[w].pc # batches[w].pc

Stopping(w) == w <= Len(batches) /\ isRunning(w) /\ ~batches[w].running

\* the batch_finished signals among the posted ones
Finishes(evs) == Len(SelectSeq(evs, LAMBDA e : e.sig = "batch_finished"))

\* C25: once a stop has been requested for a running batch, (1) the task the
\* thread is installing has a terminal status when the thread lets go of it,
\* (2) the thread takes no further task from its work list, so none is moved
\* to Installing by it, (3) a task still in the work list that is Queued
\* stays Queued, (4) batch_finished is posted in the step that ends the
\* thread and in no other step, and an ended thread does nothing more, and
\* (5) the thread does end, having let go of its task.
C25_StopAfterCurrentTask ==
    /\ [][ \A w \in 1..Len(batches) : Stopping(w) =>
             /\ batches'[w].tasks = batches[w].tasks
             /\ batches'[w].task \in { batches[w].task, None }
             /\ (batches[w].task # None /\ batches'[w].task = None)
                    => tasks'[batches[w].task].status \in Terminal
             /\ \A i \in 1..Len(batches[w].tasks) :
                    tasks[batches[w].tasks[i]].status = "queued"
                        => tasks'[batches[w].tasks[i]].status = "queued"
             /\ Finishes(events') - Finishes(events)
                    = IF batches'[w].pc = "finished" THEN 1 ELSE 0 ]_vars
    /\ [][ \A w \in 1..Len(batches) :
             batches[w].pc = "finished"
                 => /\ batches'[w] = batches[w]
                    /\ Finishes(events') = Finishes(events)
                    /\ \A i \in 1..Len(batches[w].tasks) :
                           tasks'[batches[w].tasks[i]].status
                               = tasks[batches[w].tasks[i]].status ]_vars
    /\ \A w \in 1..MaxBatches :
           Stopping(w) ~> /\ w <= Len(batches)
                          /\ batches[w].pc = "finished"
                          /\ batches[w].task = None

\* C25's case: a batch that was asked to stop while installing its first task
\* has ended with the second task still in its work list and still Queued.
C25_Witness ==
    \E w \in 1..Len(batches) :
        /\ ~batches[w].running
        /\ batches[w].pc = "finished"
        /\ batches[w].tasks # <<>>
        /\ tasks[Head(batches[w].tasks)].status = "queued"

Installing == { t \in 1..Len(tasks) : tasks[t].status = "installing" }

\* C27: the batch thread installs one task at a time, first in first out.  At
\* most one task is Installing; the thread takes a task only when it holds
\* none and no task is Installing, and the task it takes is the head of its
\* work list; it lets go of a task only when that task is Completed or
\* Failed; and a task leaves Installing only for Completed or Failed and only
\* while it is the task its thread holds.  So the tasks of a batch reach
\* their terminal status one after the other in the order of the work list.
C27_OneTaskAtATimeFifo ==
    /\ [](Cardinality(Installing) <= 1)
    /\ [][ \A w \in 1..Len(batches) :
             /\ (batches'[w].task # None /\ batches'[w].task # batches[w].task)
                   => /\ batches[w].task = None
                      /\ Installing = {}
                      /\ batches[w].tasks # <<>>
                      /\ batches'[w].task = Head(batches[w].tasks)
                      /\ batches'[w].tasks = Tail(batches[w].tasks)
                      /\ Installing' = { batches'[w].task }
             /\ (batches[w].task # None /\ batches'[w].task = None)
                   => tasks'[batches[w].task].status \in Terminal ]_vars
    /\ [][ \A t \in Installing :
             t \notin Installing'
                 => /\ tasks'[t].status \in Terminal
                    /\ \E w \in 1..Len(batches) : batches[w].task = t ]_vars

\* C27's case: a batch started on two tasks has finished the first, which is
\* Completed or Failed and has its end time, and is installing the second.
C27_Witness ==
    \E w \in 1..Len(batches) :
        /\ Len(tasks) = 2
        /\ batches[w].task = 2
        /\ batches[w].pc = "try"
        /\ tasks[2].status = "installing"
        /\ tasks[1].status \in Terminal
        /\ tasks[1].end_time # NoTime
        /\ tasks[1].end_time[1] = w

\* the signals posted in a step, oldest first; none when the step posts none
Posted ==
    IF Len(events') > Len(events)
    THEN SubSeq(events', Len(events) + 1, Len(events'))
    ELSE << >>

\* the percentages of the progress signals among sigs, in order
Percentages(sigs) ==
    LET progress == SelectSeq(sigs, LAMBDA e : e.sig = "progress_updated")
    IN  [ i \in 1..Len(progress) |-> progress[i].progress ]

\* thread w runs the loop body on the task it holds
RunsTask(w) == batches[w].pc = "try" /\ batches'[w].pc = "end_time"

\* C28: for each task the batch thread emits progress 10, then progress 50 if
\* and only if a procedure was found for the file, then progress 100, then
\* one task_completed whose flag is the status the task has got; every one of
\* these signals carries the task's id.  The thread emits task signals in no
\* other step, posted signals are handled oldest first and never reordered,
\* so the signals of one task all come before those of the next, and
\* batch_finished is emitted only by a thread that holds no task and ends.
C28_SignalsInOrder ==
    /\ [][ \A w \in 1..Len(batches) : RunsTask(w) =>
             LET t == batches[w].task
                 n == Len(Posted)
             IN  /\ n >= 3
                 /\ \A i \in 1..n : Posted[i].task_id = tasks[t].task_id
                 /\ \A i \in 1..(n - 1) : Posted[i].sig = "progress_updated"
                 /\ Percentages(Posted) =
                        IF BatchResolves(tasks[t].file_path)
                        THEN << 10, 50, 100 >> ELSE << 10, 100 >>
                 /\ Posted[n].sig = "task_completed"
                 /\ tasks'[t].status \in Terminal
                 /\ Posted[n].success = (tasks'[t].status = "completed") ]_vars
    /\ [][ \/ events' = events
           \/ events # << >> /\ events' = Tail(events)
           \/ /\ Posted # << >>
              /\ SubSeq(events', 1, Len(events)) = events
              /\ \/ \E w \in 1..Len(batches) : RunsTask(w)
                 \/ /\ Posted = << BatchFinished >>
                    /\ \E w \in 1..Len(batches) :
                          /\ batches[w].task = None
                          /\ batches[w].pc = "loop"
                          /\ batches'[w].pc = "finished" ]_vars

\* C28's case: a batch of two has ended; the signals of its first task, for
\* which no procedure was found, those of its second task, for which one was
\* found, and batch_finished are all still waiting, in that order.
C28_Witness ==
    /\ Len(events) = 8
    /\ Percentages(SubSeq(events, 1, 3)) = << 10, 100 >>
    /\ events[3].sig = "task_completed"
    /\ ~events[3].success
    /\ Percentages(SubSeq(events, 4, 7)) = << 10, 50, 100 >>
    /\ events[7].sig = "task_completed"
    /\ events[4].task_id # events[1].task_id
    /\ events[8] = BatchFinished

\* what a run has created: the steps it got to, but for the one that failed
Created(r, env) == { s \in Range(r.attempted) : s # FailedStep(env) }

\* C29: the artifacts of the desktop integration are produced only after the
\* whole procedure has succeeded: a run that ends as a failure (the
\* extraction failed, install.sh failed, the installer failed) has created
\* no menu entry, no desktop shortcut, no uninstall entry and no
\* per-application directory.
C29_ArtifactsOnlyAfterSuccess ==
    (IntegratedRun /\ probe.signal.sig = "error")
        => Created(probe.result, probe.env)
               \cap { "menu entry", "shortcut", "uninstall entry", "directories" } = {}

\* C30: the two schedulers accept the same set of format tags: for every
\* path, the batch thread finds an install procedure exactly when
\* install_file accepts the path.
C30_SameTagsAccepted ==
    (probe # <<>> /\ probe.stage = "dispatch")
        => (probe.install_func <=> probe.supported)

\* ---------------------------------------------------------- command results
\* what a command leaves in result.stderr and result.stdout: short texts of
\* blanks and letters
MaxText == 2
Chars == { " ", "e", "o" }
Whitespace == { " " }
Texts == UNION { [ 1..n -> Chars ] : n \in 0..MaxText }

\* subprocess.run(cmd, capture_output=True, text=True): a CompletedProcess
CompletedProcesses == [ returncode : { 0, 1 }, stderr : Texts, stdout : Texts ]
Exit0 == [ returncode |-> 0, stderr |-> << >>, stdout |-> << >> ]

\* str.strip: the blanks at both ends are dropped
RECURSIVE lstrip(_)
lstrip(s) == IF s # << >> /\ Head(s) \in Whitespace THEN lstrip(Tail(s)) ELSE s
RECURSIVE rstrip(_)
rstrip(s) ==
    IF s # << >> /\ s[Len(s)] \in Whitespace
    THEN rstrip(SubSeq(s, 1, Len(s) - 1)) ELSE s
strip(s) == rstrip(lstrip(s))

\* stderr, else stdout, as they were written
error_msg_unstripped(result) ==
    IF result.stderr # << >> THEN result.stderr ELSE result.stdout

\* result.stderr.strip() or result.stdout.strip()
error_msg(result) ==
    IF strip(result.stderr) # << >> THEN strip(result.stderr)
    ELSE strip(result.stdout)

\* run_command on a command whose successive executions would end as results:
\* whether it raises, the text of the exception and the number of executions.
\* A second execution after a failed first one:
run_command_twice(results) ==
    LET last == IF results[1].returncode # 0 THEN results[2] ELSE results[1]
    IN  [ raised |-> last.returncode # 0,
          message |-> IF last.returncode # 0 THEN error_msg(last) ELSE << >>,
          calls |-> IF results[1].returncode # 0 THEN 2 ELSE 1 ]

\* BatchInstaller.run_command and LinuxAppInstaller.run_command: one
\* subprocess.run, and non-zero raises Exception(error_msg)
run_command_once(results) ==
    LET result == results[1]
    IN  [ raised |-> result.returncode # 0,
          message |-> IF result.returncode # 0 THEN error_msg(result) ELSE << >>,
          calls |-> 1 ]

\* the command of a run that the result belongs to: the first or the second
\* command of the primary action, or update-desktop-database
CommandPlaces == { "first", "second", "desktop database" }

\* the run in which every tool is there, the archive holds an install.sh and
\* the command at place exits as result does
CommandEnv(place, result) ==
    LET outcome == IF result.returncode # 0 THEN "nonzero" ELSE "ok"
    IN  [ tool |-> TRUE, os |-> TRUE, script |-> TRUE,
          cmds |-> [ k \in 1..2 |->
                       IF (k = 1 /\ place = "first") \/ (k = 2 /\ place = "second")
                       THEN outcome ELSE "ok" ],
          integ |-> IF place = "desktop database" /\ result.returncode # 0
                    THEN "desktop database" ELSE "none" ]

\* a batch task of p whose command at place ends as result
batch_command ==
    /\ probe = <<>>
    /\ \E p \in ProcPaths : \E place \in { "first", "second" } :
       \E result \in CompletedProcesses : \E again \in { Exit0, result } :
         LET env == CommandEnv(place, result)
             t == [ NewTask(p) EXCEPT !.status = "installing" ]
             r == batch_install_func(p, env, app_dir)
         IN  /\ probe' = [ stage |-> "batch", path |-> p, env |-> env,
                           before |-> app_dir, result |-> r,
                           task |-> run_result(t, r),
                           signal |-> task_completed(t, r),
                           place |-> place, process |-> result,
                           command |-> run_command_once(<< result, again >>) ]
             /\ app_dir' = r.dir
             /\ disk' = DiskAfter(p, r.moved)
    /\ UNCHANGED << has_set_installer, exception, appended,
                    queue_vars, history_vars, batch_vars, single_vars, events >>

\* an interactive install of p whose command at place ends as result
interactive_command ==
    /\ probe = <<>>
    /\ \E p \in ProcPaths : \E place \in CommandPlaces :
       \E result \in CompletedProcesses : \E again \in { Exit0, result } :
         LET env == CommandEnv(place, result)
             r == install_func(p, env, app_dir)
         IN  /\ probe' = [ stage |-> "interactive", path |-> p, env |-> env,
                           before |-> app_dir, result |-> r,
                           task |-> << >>,
                           signal |-> worker_signal(r),
                           place |-> place, process |-> result,
                           command |-> run_command_once(<< result, again >>) ]
             /\ app_dir' = r.dir
             /\ disk' = DiskAfter(p, r.moved)
    /\ UNCHANGED << has_set_installer, exception, appended,
                    queue_vars, history_vars, batch_vars, single_vars, events >>

SpecCommand == InitProc /\ [][ batch_command \/ interactive_command ]_vars

\* the command at the probed place was executed in the run, and exited non-zero
Executed ==
    /\ probe # <<>>
    /\ probe.process.returncode # 0
    /\ CASE probe.place = "first" -> Len(PrimaryCommands(probe.path, probe.env)) >= 1
         [] probe.place = "second" -> Len(PrimaryCommands(probe.path, probe.env)) >= 2
         [] OTHER -> /\ probe.stage = "interactive"
                     /\ "desktop database" \in Range(probe.result.attempted)
PrimaryExecuted == Executed /\ probe.place \in { "first", "second" }

\* C31 as stated: a command that exits non-zero fails its procedure with its
\* stderr text when that is non-empty, otherwise its stdout text, otherwise
\* the empty text; it is executed once, and the task or the install ends as
\* failed with a message that carries the diagnostic.
C31_NonZeroExitFailsWithStderr ==
    Executed =>
        /\ probe.command.raised
        /\ probe.command.message = error_msg_unstripped(probe.process)
        /\ probe.command.calls = 1
        /\ FailedWith(MsgFailed)

\* C31 amended: a command of the primary action that exits non-zero fails its
\* procedure with its stderr text stripped of the blanks at both ends when
\* that leaves something, otherwise with its stdout text stripped likewise
\* (which may be empty); it is executed once, and the task or the install
\* ends as failed with a message that carries the diagnostic.
C31_PrimaryNonZeroExitFails ==
    PrimaryExecuted =>
        /\ probe.command.raised
        /\ probe.command.message =
               ( IF strip(probe.process.stderr) # << >>
                 THEN strip(probe.process.stderr)
                 ELSE strip(probe.process.stdout) )
        /\ probe.command.calls = 1
        /\ FailedWith(MsgFailed)

\* the dependency-fix command of a batch deb task exits non-zero with blanks
\* on stderr and a text with a trailing blank on stdout
C31_Witness ==
    /\ PrimaryExecuted
    /\ probe.stage = "batch" /\ probe.path = PathDeb /\ probe.place = "second"
    /\ probe.process.stderr = << " " >>
    /\ probe.process.stdout = << "o", " " >>
    /\ probe.command.message = << "o" >>
    /\ probe.task.status = "failed"

\* ------------------------------------------------- the commands of a run
PathSnap == << "s", "snap" >>
PathFlatpak == << "k", "flatpak" >>
ToolPaths == { PathDeb, PathSnap, PathFlatpak }

\* every command of the procedure is executed, whatever the earlier ones did
RECURSIVE commands_run_all(_, _, _)
commands_run_all(cmds, outcomes, k) ==
    IF k > Len(cmds) THEN << >>
    ELSE << cmds[k] >> \o commands_run_all(cmds, outcomes, k + 1)

\* the commands a procedure executes: self.run_command is called on them in
\* order, and the first call that raises ends the procedure
RECURSIVE commands_run(_, _, _)
commands_run(cmds, outcomes, k) ==
    IF k > Len(cmds) THEN << >>
    ELSE << cmds[k] >> \o
         ( IF run_command(cmds[k], outcomes[k]) # << >> THEN << >>
           ELSE commands_run(cmds, outcomes, k + 1) )

\* install_deb, install_snap, install_flatpak of both classes: shutil.which
\* comes first and raises before any command
with_tool_commands(p, env) ==
    IF ~env.tool THEN << >>
    ELSE commands_run(Commands(DotToUnderscore(get_file_type(p)), p, env), env.cmds, 1)

\* BatchInstaller.install_<ext> on a deb, snap or flatpak file
batch_tool_procedure ==
    /\ probe = <<>>
    /\ \E p \in ToolPaths : \E env \in BatchEnvs :
         probe' = [ stage |-> "batch tool", path |-> p, env |-> env,
                    result |-> batch_install_func(p, env, app_dir),
                    executed |-> with_tool_commands(p, env) ]
    /\ UNCHANGED << has_set_installer, disk, app_dir, exception, appended,
                    queue_vars, history_vars, batch_vars, single_vars, events >>

\* LinuxAppInstaller.install_<ext> on a deb, snap or flatpak file
interactive_tool_procedure ==
    /\ probe = <<>>
    /\ \E p \in ToolPaths : \E env \in InstallEnvs :
         probe' = [ stage |-> "interactive tool", path |-> p, env |-> env,
                    result |-> install_func(p, env, app_dir),
                    executed |-> with_tool_commands(p, env) ]
    /\ UNCHANGED << has_set_installer, disk, app_dir, exception, appended,
                    queue_vars, history_vars, batch_vars, single_vars, events >>

SpecTools == InitProc /\ [][ batch_tool_procedure \/ interactive_tool_procedure ]_vars

ToolProcedureRan == probe # <<>> /\ probe.stage \in { "batch tool", "interactive tool" }

\* C32: for deb, snap and flatpak a procedure whose tool is absent fails
\* without executing any external command; for deb the dependency-fix command
\* is executed only after the package-install command succeeded, and a
\* failing install command means the dependency-fix command is never run.
C32_ToolCheckedBeforeCommands ==
    ToolProcedureRan =>
        /\ ~probe.env.tool => ( ~probe.result.ok /\ probe.executed = << >> )
        /\ ( probe.path = PathDeb /\ AptCommand \in Range(probe.executed) ) =>
               /\ probe.executed = << DpkgCommand(PathDeb), AptCommand >>
               /\ probe.env.cmds[1] = "ok"
        /\ ( probe.path = PathDeb /\ probe.env.tool /\ probe.env.cmds[1] # "ok" ) =>
               /\ probe.executed = << DpkgCommand(PathDeb) >>
               /\ ~probe.result.ok

\* dpkg is there and dpkg -i exits non-zero on the interactive path
C32_Witness ==
    /\ ToolProcedureRan
    /\ probe.stage = "interactive tool"
    /\ probe.path = PathDeb /\ probe.env.tool
    /\ probe.env.cmds = [ k \in 1..2 |-> IF k = 1 THEN "nonzero" ELSE "ok" ]
    /\ probe.executed = << DpkgCommand(PathDeb) >>
    /\ ~probe.result.ok

\* ------------------------------------- executables of an extracted archive
\* the files os.walk meets in the extracted directory: a name as the list of
\* its dot-separated segments, whether os.access(X_OK) holds, and the first
\* bytes
MaxWalk == 4
ArchiveFiles ==
    { [ name |-> << "install", "sh" >>, x_ok |-> TRUE, header |-> "#!/" ],
      [ name |-> << "configure" >>, x_ok |-> TRUE, header |-> "#!/" ],
      [ name |-> << "app" >>, x_ok |-> TRUE, header |-> "ELF" ],
      [ name |-> << "tool" >>, x_ok |-> TRUE, header |-> "ELF" ],
      [ name |-> << "start", "sh" >>, x_ok |-> TRUE, header |-> "#!/" ],
      [ name |-> << "lib", "so" >>, x_ok |-> TRUE, header |-> "ELF" ],
      [ name |-> << "readme" >>, x_ok |-> FALSE, header |-> "text" ],
      [ name |-> << "data" >>, x_ok |-> TRUE, header |-> "text" ] }

\* the walks of an archive: its files, each met once
Walks ==
    UNION { { w \in [ 1..n -> ArchiveFiles ] :
                \A i \in 1..n : \A j \in 1..n : w[i] = w[j] => i = j } :
            n \in 0..MaxWalk }

LibrarySuffixes == { "so", "dll", "dylib" }
InstallerScripts == { << "install", "sh" >>, << "uninstall", "sh" >>, << "configure" >> }

\* lines 1366-1372: executable, not a library, ELF or shebang
IsExecutable(file) ==
    /\ file.x_ok
    /\ ~( Len(file.name) >= 2 /\ file.name[Len(file.name)] \in LibrarySuffixes )
    /\ file.header \in { "ELF", "#!/" }

\* executables[:3]
FirstThree(seq) == SubSeq(seq, 1, IF Len(seq) < 3 THEN Len(seq) ELSE 3)

\* lines 1363-1372: the list executables, in the order of the walk
executables(walk) == SelectSeq(walk, IsExecutable)

NotInstallerScript(file) == file.name \notin InstallerScripts

\* lines 1377-1380: the loop over executables[:3] skips the installer scripts;
\* the files an entry is written for
tar_entries(walk) == SelectSeq(FirstThree(executables(walk)), NotInstallerScript)

\* create_tar_desktop_entries on an extracted archive
walk_archive ==
    /\ probe = <<>>
    /\ \E walk \in Walks :
         probe' = [ stage |-> "entries", walk |-> walk,
                    executables |-> executables(walk),
                    entries |-> tar_entries(walk) ]
    /\ UNCHANGED << has_set_installer, disk, app_dir, exception, appended,
                    queue_vars, history_vars, batch_vars, single_vars, events >>

SpecEntries == InitProc /\ [][ walk_archive ]_vars

\* the files the claim counts: execute-permitted, ELF or shebang, and not an
\* installer script
Qualifies(file) ==
    /\ file.x_ok
    /\ file.header \in { "ELF", "#!/" }
    /\ file.name \notin InstallerScripts

\* C33: the menu entries of an extracted archive are those of the first three
\* files, in traversal order, that are execute-permitted, start with the ELF
\* magic or a shebang and are not installer scripts; with three such files in
\* the archive exactly three entries are created, also when installer scripts
\* precede them.
C33_FirstThreeQualifying ==
    ( probe # <<>> /\ probe.stage = "entries" ) =>
        /\ Len(probe.entries) <= 3
        /\ probe.entries = FirstThree(SelectSeq(probe.walk, Qualifies))
        /\ Len(SelectSeq(probe.walk, Qualifies)) >= 3 => Len(probe.entries) = 3

\* the formats post_install_setup has an extension list for, as
\* get_file_type names them
AssociatedFormats == DOMAIN file_associations

\* C34: after a successful interactive install of a format that has an
\* extension list (appimage, tar.gz, tar.xz, run, bin) the mime-association
\* step is invoked; it is not skipped for archives or for run/bin installers.
C34_AssociationsForEveryFormat ==
    ( /\ ProcedureRan
      /\ probe.stage = "interactive"
      /\ probe.result.ok
      /\ get_file_type(probe.path) \in AssociatedFormats ) =>
        "file associations" \in Range(probe.result.attempted)

\* ------------------------------------------- the threads and the ledger
\* The operations on the history ledger, step by step.  probe is the stack of
\* the ledger operations in progress: each is a record of the thread that
\* runs it, the step it is at and the task it saves.
LedgerOp(thread, op, t) == [ stage |-> "ledger", thread |-> thread, op |-> op, task |-> t ]
Top == probe[Len(probe)]
Pop == SubSeq(probe, 1, Len(probe) - 1)
At(op) == probe # <<>> /\ Top.op = op
Goto(op) == [ probe EXCEPT ![Len(probe)].op = op ]

\* an event loop that hands out the next event at any time, also inside a
\* handler
MainThreadReentrant == TRUE

\* the signals of the workers are queued to the main thread, and a click or a
\* queued signal is handled when the handler before it has returned: no
\* ledger operation opens a dialog or calls processEvents
MainThreadIdle == probe = <<>>

\* on_batch_task_completed, lines 989-992: up to the call of save_history_entry
task_completed_begin ==
    /\ MainThreadIdle
    /\ events # <<>>
    /\ Head(events).sig = "task_completed"
    /\ events' = Tail(events)
    /\ LET e == Head(events)
           t == FirstWithId(installation_queue, e.task_id)
       IN  IF t = None
           THEN UNCHANGED << tasks, probe >>
           ELSE /\ tasks' = [ tasks EXCEPT
                               ![t].status = IF e.success THEN "completed" ELSE "failed",
                               ![t].message = e.message ]
                /\ probe' = Append(probe, LedgerOp("main", "append", t))
    /\ UNCHANGED << has_set_installer, disk, app_dir, exception, appended,
                    installation_queue, history_vars, batch_vars, single_vars >>

\* save_history_entry, line 1035
save_history_append ==
    /\ At("append")
    /\ installation_history' = Append(installation_history, tasks[Top.task])
    /\ probe' = Goto("rewrite")
    /\ UNCHANGED << has_set_installer, disk, app_dir, exception, appended,
                    queue_vars, history_file, batch_vars, single_vars, events >>

\* save_history_entry, lines 1036-1041
save_history_write(wr) ==
    /\ At("rewrite")
    /\ history_file' = written_file(history_file, installation_history, wr)
    /\ probe' = Goto("load")
    /\ UNCHANGED << has_set_installer, disk, app_dir, exception, appended,
                    queue_vars, installation_history, batch_vars, single_vars, events >>

\* load_history, as line 995 and the Refresh button call it
load_history_step ==
    /\ At("load")
    /\ installation_history' = load_history(history_file)
    /\ exception' = LoadException(history_file)
    /\ probe' = Pop
    /\ UNCHANGED << has_set_installer, disk, app_dir, appended,
                    queue_vars, history_file, batch_vars, single_vars, events >>

\* the Refresh button is clicked
refresh_begin ==
    /\ MainThreadIdle
    /\ probe' = Append(probe, LedgerOp("main", "load", None))
    /\ UNCHANGED << has_set_installer, disk, app_dir, exception, appended,
                    queue_vars, history_vars, batch_vars, single_vars, events >>

\* clear_history, lines 1044-1047: the question is answered Yes
clear_begin ==
    /\ MainThreadIdle
    /\ probe' = Append(probe, LedgerOp("main", "clear", None))
    /\ UNCHANGED << has_set_installer, disk, app_dir, exception, appended,
                    queue_vars, history_vars, batch_vars, single_vars, events >>

\* clear_history, line 1048
clear_list ==
    /\ At("clear")
    /\ installation_history' = <<>>
    /\ probe' = Goto("remove")
    /\ UNCHANGED << has_set_installer, disk, app_dir, exception, appended,
                    queue_vars, history_file, batch_vars, single_vars, events >>

\* clear_history, lines 1049-1054
clear_remove ==
    /\ At("remove")
    /\ \E removed \in BOOLEAN :
         history_file' = IF removed /\ history_file.state # "missing"
                         THEN [ state |-> "missing", data |-> <<>> ]
                         ELSE history_file
    /\ probe' = Pop
    /\ UNCHANGED << has_set_installer, disk, app_dir, exception, appended,
                    queue_vars, installation_history, batch_vars, single_vars, events >>

\* what the main thread does between ledger operations, in the sessions of
\* one batch and one interactive install
NextMainThread ==
    \/ MainThreadIdle /\ add_to_queue(<< PathDeb >>)
    \/ MainThreadIdle /\ batches = <<>> /\ start_batch_installation
    \/ MainThreadIdle /\ install_workers = <<>> /\ dropEvent(<< File(PathDeb, "ok") >>)
    \/ MainThreadIdle /\ on_batch_progress
    \/ MainThreadIdle /\ on_batch_finished
    \/ MainThreadIdle /\ on_install_finished
    \/ MainThreadIdle /\ on_install_error

NextLedgerOps ==
    \/ task_completed_begin
    \/ save_history_append
    \/ \E wr \in WriteOutcomes : save_history_write(wr)
    \/ load_history_step
    \/ refresh_begin
    \/ clear_begin
    \/ clear_list
    \/ clear_remove

\* the batch workers and the interactive workers
NextWorkerThreads ==
    \/ \E w \in 1..Len(batches) : batch_loop(w)
    \/ \E w \in 1..Len(batches) : batch_start_time(w)
    \/ \E w \in 1..Len(batches) : batch_try(w, QuickEnvs)
    \/ \E w \in 1..Len(batches) : batch_end_time(w)
    \/ \E i \in 1..Len(install_workers) : install_worker_run(i, QuickEnvs)

\* the main thread, a batch worker and an interactive worker side by side
SpecThreads ==
    Init /\ [][NextMainThread \/ NextLedgerOps \/ NextWorkerThreads]_vars

\* a step of a worker thread
WorkerMoves == batches' # batches \/ install_workers' # install_workers

Installers == { "batch", "single" }
Race ==
    IF probe = <<>>
    THEN [ stage |-> "appimage",
           at |-> [ th \in Installers |-> "exists" ],
           dest |-> [ th \in Installers |-> 0 ],
           replaced |-> {} ]
    ELSE probe

\* a file of that name is in ~/Applications before the installs start
applications_hold(k) ==
    /\ tasks = <<>> /\ install_workers = <<>>
    /\ k \notin app_dir
    /\ Cardinality(app_dir) < MaxSlots - 1
    /\ app_dir' = app_dir \cup { k }
    /\ UNCHANGED << has_set_installer, disk, exception, appended, probe,
                    queue_vars, history_vars, batch_vars, single_vars, events >>

\* lines 337-343 and 1191-1196: dest is the first name that does not exist
chosen_dest(th) ==
    [ Race EXCEPT !.at[th] = "move", !.dest[th] = appimage_dest(app_dir) ]

\* lines 344 and 1197: shutil.move(file_path, dest) puts the file at dest,
\* in place of a file that is there
moved_to_dest(th) ==
    [ Race EXCEPT !.at[th] = "done",
                  !.replaced = IF Race.dest[th] \in app_dir THEN @ \cup { th } ELSE @ ]

\* BatchInstaller.install_appimage, lines 335-343
batch_appimage_exists(w) ==
    /\ batches[w].pc = "try"
    /\ Race.at["batch"] = "exists"
    /\ probe' = chosen_dest("batch")
    /\ UNCHANGED << has_set_installer, disk, app_dir, exception, appended,
                    queue_vars, history_vars, batch_vars, single_vars, events >>

\* BatchInstaller.install_appimage, lines 344-346, and run, lines 303-306
batch_appimage_move(w) ==
    /\ batches[w].pc = "try"
    /\ Race.at["batch"] = "move"
    /\ LET t == batches[w].task
           dest == Race.dest["batch"]
           r == Returns(MsgAppImage(dest), app_dir \cup { dest }, TRUE)
       IN  /\ tasks' = [ tasks EXCEPT ![t] = run_result(tasks[t], r) ]
           /\ events' = events \o signals(tasks[t], r)
           /\ app_dir' = r.dir
    /\ probe' = moved_to_dest("batch")
    /\ batches' = [ batches EXCEPT ![w].pc = "end_time" ]
    /\ UNCHANGED << has_set_installer, disk, exception, appended,
                    installation_queue, history_vars,
                    current_batch_installer, batch_install_button, single_vars >>

\* LinuxAppInstaller.install_appimage, lines 1190-1196
single_appimage_exists(i) ==
    /\ install_workers[i].pc = "running"
    /\ Race.at["single"] = "exists"
    /\ probe' = chosen_dest("single")
    /\ UNCHANGED << has_set_installer, disk, app_dir, exception, appended,
                    queue_vars, history_vars, batch_vars, single_vars, events >>

\* LinuxAppInstaller.install_appimage, lines 1197-1209, every step of the
\* desktop integration succeeding, and InstallWorker.run
single_appimage_move(i) ==
    /\ install_workers[i].pc = "running"
    /\ Race.at["single"] = "move"
    /\ LET dest == Race.dest["single"]
       IN  /\ events' = Append(events, InstallFinished(MsgAppImage(dest) \o WithIntegration))
           /\ app_dir' = app_dir \cup { dest }
    /\ probe' = moved_to_dest("single")
    /\ install_workers' = [ install_workers EXCEPT ![i].pc = "done" ]
    /\ UNCHANGED << has_set_installer, disk, exception, appended,
                    queue_vars, history_vars, batch_vars,
                    current_worker, installing, ui_enabled, status_label, dialog,
                    dialog_text >>

\* one batch of one AppImage task and one interactive AppImage install, with
\* history.json not writable
NextRace ==
    \/ \E k \in 0..MaxSlots : applications_hold(k)
    \/ tasks = <<>> /\ add_to_queue(<< PathApp >>)
    \/ batches = <<>> /\ start_batch_installation
    \/ install_workers = <<>> /\ dropEvent(<< File(PathApp, "ok") >>)
    \/ \E w \in 1..Len(batches) : batch_loop(w)
    \/ \E w \in 1..Len(batches) : batch_start_time(w)
    \/ \E w \in 1..Len(batches) : batch_appimage_exists(w)
    \/ \E w \in 1..Len(batches) : batch_appimage_move(w)
    \/ \E w \in 1..Len(batches) : batch_end_time(w)
    \/ \E i \in 1..Len(install_workers) : single_appimage_exists(i)
    \/ \E i \in 1..Len(install_workers) : single_appimage_move(i)
    \/ on_batch_progress
    \/ on_batch_task_completed("open_failed")
    \/ on_batch_finished
    \/ on_install_finished

SpecRace == InitProc /\ [][NextRace]_vars

BatchInFlight == \E w \in 1..Len(batches) : isRunning(w)
InstallInFlight == \E i \in 1..Len(install_workers) : install_workers[i].pc = "running"

WithoutEntry(queue, i) == SubSeq(queue, 1, i - 1) \o SubSeq(queue, i + 1, Len(queue))

\* C37: remove_from_queue for one selected entry removes exactly that entry
\* and leaves every other entry in place and in order, also the other entries
\* of the same source path; the history and the batches are unchanged.
C37_RemovesExactlyOneEntry ==
    [][ ( \E p \in Paths : remove_from_queue(TaskId(p)) ) =>
          /\ \E i \in 1..Len(installation_queue) :
                 installation_queue' = WithoutEntry(installation_queue, i)
          /\ UNCHANGED << history_vars, batches >> ]_vars

\* the reasons install_file has to reject a request for f in state s
Rejected(s, f) ==
    \/ s.installing
    \/ s.current_worker # None /\ s.install_workers[s.current_worker].pc = "running"
    \/ f.cond \in { "missing", "unreadable", "empty" }
    \/ get_file_type(f.path) \notin InteractiveSupported

\* a drop or a browse none of whose files is installed
AllRejected(files) ==
    \A k \in 1..Len(files) : files[k].cond = "not_file" \/ Rejected(SingleState, files[k])

RequestFiles == { File(p, c) : p \in DropPaths, c \in FileConds \ { "not_file" } }

\* C38: a rejected interactive install request (busy flag, worker running,
\* file missing, unreadable or empty, unsupported format) leaves the
\* installing flag, the current worker, the queue and the history as they
\* were, and starts no worker, procedure or command.
C38_RejectedRequestChangesNothing ==
    /\ [] ( \A f \in RequestFiles :
              Rejected(SingleState, f) =>
                  LET s == install_file(SingleState, f)
                  IN  /\ s.installing = installing
                      /\ s.current_worker = current_worker
                      /\ s.install_workers = install_workers )
    /\ [][ ( \E files \in FileSelections :
               /\ AllRejected(files)
               /\ dropEvent(files) \/ browse_files(files) ) =>
             UNCHANGED << installing, current_worker, install_workers,
                          queue_vars, history_vars, events, app_dir, disk >> ]_vars

\* a request made while a worker runs was turned away: the notice is shown,
\* and there is still the one worker
C38_Witness ==
    /\ installing
    /\ status_label = BusyNotice
    /\ Len(install_workers) = 1
    /\ install_workers[1].pc = "running"
    /\ current_worker = 1
    /\ events = <<>>

====
